---- MODULE Spec2Model ----
(***************************************************************************)
(* Budget tracking and spend reconciliation of Fintracker.                 *)
(*                                                                         *)
(* The ledger (Expense collection) and the Budget collection are modelled  *)
(* as sets of documents.  Each request handler of the expense router and   *)
(* of the budget router is one action; in Spec the requests are served one *)
(* after the other (no interleaving of the awaits of two handlers).        *)
(*                                                                         *)
(* A Date is modelled by its fields in the server's local time zone:       *)
(* [year, month (0-based), day, ms (milliseconds since local midnight)].   *)
(* Every Date the handlers build or read is used through local-time        *)
(* accessors (new Date(y, m, d), getFullYear, toLocaleString month), so    *)
(* the order of instants is the lexicographic order of these fields.       *)
(* toLocaleString('default', {month: 'long'}) is modelled for an English   *)
(* default locale, the one in which the month names of the Budget schema   *)
(* can match at all.                                                       *)
(***************************************************************************)
EXTENDS Integers, FiniteSets, Sequences, TLC

VARIABLES expenses, budgets, nextExpenseId, nextBudgetId, lastOp, served,
          incomes, nextIncomeId, procs, request, now, response

vars == <<expenses, budgets, nextExpenseId, nextBudgetId, lastOp, served,
          incomes, nextIncomeId, procs, request, now, response>>

----------------------------------------------------------------------------
(* Bounds of the model *)

\* number of expense documents ever created
MaxExpenses == 2

\* number of budget documents ever created
MaxBudgets == 2

\* largest expense amount a request carries
MaxAmount == 2

\* number of income documents ever created
MaxIncomes == 1

\* number of requests served in a run
MaxRequests == 4

Users == {"u1"}

Categories == {"Food", "Transport"}

Amounts == 1..MaxAmount

BudgetAmounts == {5}

BudgetMonths == {"March", "April"}

BudgetYears == {2024}

\* first instant of March 2024, last instant of March 2024 and first
\* instant of April 2024
ExpenseDates ==
  { [year |-> 2024, month |-> 2, day |-> 1,  ms |-> 0],
    [year |-> 2024, month |-> 2, day |-> 31, ms |-> 86399999],
    [year |-> 2024, month |-> 3, day |-> 1,  ms |-> 0] }

----------------------------------------------------------------------------
(* Dates *)

months ==
  << "January", "February", "March", "April", "May", "June",
     "July", "August", "September", "October", "November", "December" >>

\* months.indexOf(monthName): 0-based, -1 when absent
getMonthIndex(monthName) ==
  IF \E i \in 1..Len(months) : months[i] = monthName
  THEN (CHOOSE i \in 1..Len(months) : months[i] = monthName) - 1
  ELSE -1

\* date.toLocaleString('default', { month: 'long' })
MonthLong(date) == months[date.month + 1]

\* date.getFullYear()
getFullYear(date) == date.year

IsLeapYear(y) == (y % 4 = 0 /\ y % 100 # 0) \/ y % 400 = 0

DaysInMonth(y, m) ==
  IF m = 1 THEN (IF IsLeapYear(y) THEN 29 ELSE 28)
  ELSE IF m \in {3, 5, 8, 10} THEN 30 ELSE 31

\* new Date(year, monthIndex, day) for day = 1 and for day = 0 (the day
\* before the first of the month); monthIndex may be 12 (January of the
\* next year).  The time of day is local midnight.
NewDate(year, monthIndex, day) ==
  LET y == year + (monthIndex \div 12)
      m == monthIndex % 12
      py == IF m = 0 THEN y - 1 ELSE y
      pm == IF m = 0 THEN 11 ELSE m - 1
  IN IF day = 0
     THEN [year |-> py, month |-> pm, day |-> DaysInMonth(py, pm), ms |-> 0]
     ELSE [year |-> y, month |-> m, day |-> day, ms |-> 0]

\* the (month, year) bucket of a calendar date
BucketOf(date) == <<months[date.month + 1], date.year>>

\* order of instants ($gte / $lte on a Date field)
DateLE(a, b) ==
  \/ a.year < b.year
  \/ a.year = b.year /\ a.month < b.month
  \/ a.year = b.year /\ a.month = b.month /\ a.day < b.day
  \/ a.year = b.year /\ a.month = b.month /\ a.day = b.day /\ a.ms <= b.ms

----------------------------------------------------------------------------
(* Storage operations *)

RECURSIVE SumAmounts(_)
SumAmounts(S) ==
  IF S = {} THEN 0
  ELSE LET e == CHOOSE x \in S : TRUE
       IN e.amount + SumAmounts(S \ {e})

\* variant: the $match stage of the aggregate leaves out userId
AggregateAnyOwner(exps, userId, category, startDate, endDate) ==
  SumAmounts({ e \in exps : /\ e.category = category
                            /\ DateLE(startDate, e.date)
                            /\ DateLE(e.date, endDate) })

\* Expense.aggregate([{$match: {userId, category, date: {$gte, $lte}}},
\*                    {$group: {_id: null, total: {$sum: '$amount'}}}])
\* followed by spentAmount[0]?.total || 0
Aggregate(exps, userId, category, startDate, endDate) ==
  SumAmounts({ e \in exps : /\ e.userId = userId
                            /\ e.category = category
                            /\ DateLE(startDate, e.date)
                            /\ DateLE(e.date, endDate) })

\* the bounded scan of budget create, budget update and refresh
ScanSpent(exps, userId, category, month, year) ==
  LET startDate == NewDate(year, getMonthIndex(month), 1)
      endDate   == NewDate(year, getMonthIndex(month) + 1, 0)
  IN Aggregate(exps, userId, category, startDate, endDate)

\* variant: the increment is an upsert that creates the missing budget
IncSpentUpsert(bs, userId, category, month, year, delta) ==
  IF \E b \in bs : /\ b.userId = userId /\ b.category = category
                   /\ b.month = month /\ b.year = year
  THEN { IF /\ b.userId = userId /\ b.category = category
            /\ b.month = month /\ b.year = year
         THEN [b EXCEPT !.spentAmount = @ + delta]
         ELSE b : b \in bs }
  ELSE bs \cup { [id |-> 0, userId |-> userId, category |-> category,
                  budgetAmount |-> 0, spentAmount |-> delta,
                  month |-> month, year |-> year] }

\* Budget.findOneAndUpdate({userId, category, month, year},
\*                         {$inc: {spentAmount: delta}})
\* no upsert, no validators: a missing budget is a no-op
IncSpent(bs, userId, category, month, year, delta) ==
  { IF /\ b.userId = userId /\ b.category = category
       /\ b.month = month /\ b.year = year
    THEN [b EXCEPT !.spentAmount = @ + delta]
    ELSE b : b \in bs }

----------------------------------------------------------------------------
(* Requests and responses *)



NoDate == [year |-> 0, month |-> 0, day |-> 0, ms |-> 0]

NoDoc == [id |-> 0, userId |-> "", amount |-> 0, category |-> "",
          date |-> NoDate]

\* the request served last, the document its handler read before writing
\* (oldExpense of the update, expense of the delete) and the HTTP status
Op(op, user, id, amount, category, date, month, year, old, status) ==
  [op |-> op, user |-> user, id |-> id, amount |-> amount,
   category |-> category, date |-> date, month |-> month, year |-> year,
   old |-> old, status |-> status]

NoOp == Op("none", "", 0, 0, "", NoDate, "", 0, NoDoc, 0)

----------------------------------------------------------------------------
(* Request bodies and the validation middleware.  A numeric field of a     *)
(* body is the sequence of its characters, a description is modelled by    *)
(* its length, the other fields are strings; a missing field is the empty  *)
(* string.                                                                 *)

Digits == {"0", "1", "2", "3", "4", "5", "6", "7", "8", "9"}

DigitValue(c) ==
  CASE c = "0" -> 0 [] c = "1" -> 1 [] c = "2" -> 2 [] c = "3" -> 3
    [] c = "4" -> 4 [] c = "5" -> 5 [] c = "6" -> 6 [] c = "7" -> 7
    [] c = "8" -> 8 [] c = "9" -> 9

IsDigits(s) == \A i \in 1..Len(s) : s[i] \in Digits

\* the characters after an optional sign
Unsigned(s) == IF Len(s) > 0 /\ s[1] \in {"+", "-"} THEN Tail(s) ELSE s

\* isNumeric of validator.js: /^[+-]?([0-9]*[.])?[0-9]+$/
isNumeric(s) ==
  LET u == Unsigned(s)
  IN \E k \in 0..Len(u) :
       /\ k = 0 \/ (u[k] = "." /\ IsDigits(SubSeq(u, 1, k - 1)))
       /\ Len(u) > k
       /\ IsDigits(SubSeq(u, k + 1, Len(u)))

\* isInt of validator.js: /^(?:[-+]?(?:0|[1-9][0-9]*))$/
IsIntString(s) ==
  LET u == Unsigned(s)
  IN /\ Len(u) > 0
     /\ IsDigits(u)
     /\ Len(u) > 1 => u[1] # "0"

RECURSIVE DecimalValue(_)
DecimalValue(s) ==
  IF s = <<>> THEN 0
  ELSE 10 * DecimalValue(SubSeq(s, 1, Len(s) - 1)) + DigitValue(s[Len(s)])

\* the length of the longest prefix of s made of digits
RECURSIVE DigitPrefix(_)
DigitPrefix(s) ==
  IF s = <<>> \/ s[1] \notin Digits THEN 0 ELSE 1 + DigitPrefix(Tail(s))

\* parseFloat / parseInt of a string without fractional part or exponent:
\* the sign and the longest prefix of digits, NaN when there is no digit
parseFloat(s) ==
  LET u == Unsigned(s)
      n == DigitPrefix(u)
      v == DecimalValue(SubSeq(u, 1, n))
  IN IF n = 0 THEN [nan |-> TRUE, value |-> 0]
     ELSE [nan |-> FALSE,
           value |-> IF s[1] = "-" THEN 0 - v ELSE v]

parseInt(s) == parseFloat(s)

\* isInt({ min, max })
isInt(s, min, max) ==
  /\ IsIntString(s)
  /\ parseInt(s).value >= min
  /\ parseInt(s).value <= max

\* the strings of the model that isISO8601 accepts, with the Date that
\* new Date(string) builds from them (no offset: local time)
IsoDates ==
  [ s \in {"2024-03-01T00:00:00.000", "2024-03-31T23:59:59.999"} |->
      IF s = "2024-03-01T00:00:00.000"
      THEN [year |-> 2024, month |-> 2, day |-> 1,  ms |-> 0]
      ELSE [year |-> 2024, month |-> 2, day |-> 31, ms |-> 86399999] ]

isISO8601(s) == s \in DOMAIN IsoDates

\* new Date(date) of a string that passed isISO8601
NewDateOf(s) == IsoDates[s]

\* variant: the custom validator of the amount accepts every value
PositiveAmountAlways(s) == TRUE

\* the custom validator of amount and budgetAmount: it throws when
\* parseFloat(value) <= 0 (a comparison that NaN never satisfies)
PositiveAmount(s) == ~(~parseFloat(s).nan /\ parseFloat(s).value <= 0)

Err(path, msg) == [path |-> path, msg |-> msg]

\* validateTransaction: the errors of its chains
validateTransaction(body) ==
     (IF body.description = 0
      THEN {Err("description", "Description is required")} ELSE {})
  \cup (IF body.description > 200
        THEN {Err("description",
                  "Description must be less than 200 characters")}
        ELSE {})
  \cup (IF ~isNumeric(body.amount)
        THEN {Err("amount", "Amount must be a number")} ELSE {})
  \cup (IF ~PositiveAmount(body.amount)
        THEN {Err("amount", "Amount must be greater than 0")} ELSE {})
  \cup (IF body.category = ""
        THEN {Err("category", "Category is required")} ELSE {})
  \cup (IF ~isISO8601(body.date)
        THEN {Err("date", "Invalid date format")} ELSE {})

\* validateBudget: the errors of its chains
validateBudget(body) ==
     (IF body.category = ""
      THEN {Err("category", "Category is required")} ELSE {})
  \cup (IF ~isNumeric(body.budgetAmount)
        THEN {Err("budgetAmount", "Budget amount must be a number")}
        ELSE {})
  \cup (IF ~PositiveAmount(body.budgetAmount)
        THEN {Err("budgetAmount", "Budget amount must be greater than 0")}
        ELSE {})
  \cup (IF ~\E i \in 1..12 : months[i] = body.month
        THEN {Err("month", "Invalid month")} ELSE {})
  \cup (IF ~isInt(body.year, 2020, 2030)
        THEN {Err("year", "Year must be between 2020 and 2030")} ELSE {})

TransactionBody(description, amount, category, date) ==
  [description |-> description, amount |-> amount, category |-> category,
   date |-> date, budgetAmount |-> <<>>, month |-> "", year |-> <<>>]

BudgetBody(category, budgetAmount, month, year) ==
  [description |-> 0, amount |-> <<>>, category |-> category, date |-> "",
   budgetAmount |-> budgetAmount, month |-> month, year |-> year]

\* the request in the middleware chain: its body, the errors the
\* validation chains collected, and whether the handler is still to run
NoRequest ==
  [pending |-> FALSE, route |-> "none", user |-> "", id |-> 0,
   body |-> TransactionBody(0, <<>>, "", ""), errors |-> {}]

\* the clock of the server when the first request arrives: 15 April 2024,
\* noon
StartClock == [year |-> 2024, month |-> 3, day |-> 15, ms |-> 43200000]

\* the query of an aggregation request (absent parameters are empty) and
\* the body of its response
Query(period, startDate, endDate, monthsParam, type) ==
  [period |-> period, startDate |-> startDate, endDate |-> endDate,
   months |-> monthsParam, type |-> type]

\* start and end are the date range the handler matched on
NoResponse ==
  [route |-> "none", user |-> "", status |-> 0,
   query |-> Query("", "", "", <<>>, ""),
   start |-> NoDate, end |-> NoDate,
   totalIncome |-> 0, totalExpenses |-> 0, categoryData |-> <<>>,
   monthlyData |-> <<>>, dailyTrend |-> <<>>]

\* one more request is accepted
Accept == served < MaxRequests /\ served' = served + 1

\* one more request is served from start to end, with no other in between
Serve ==
  /\ Accept
  /\ request' = NoRequest
  /\ UNCHANGED <<incomes, nextIncomeId, procs, now, response>>

\* the request slots of the interleaved specifications
ProcIds == {"p1", "p2"}

NoBudget == [id |-> 0, userId |-> "", category |-> "", budgetAmount |-> 0,
             spentAmount |-> 0, month |-> "", year |-> 0]

\* a handler in flight: its request, its position (pc), its local variables
\* (old: oldExpense / expense; todo: the budgets of the refresh loop not yet
\* visited; cur: the budget of the current iteration; total: the result of
\* the aggregate), the status of its response (0: none yet), and what it
\* did so far (wrote: the ledger write happened; incs: $inc calls that
\* returned; alone: no other request was in flight at any time since this
\* one started; errorCode: error.code seen by the catch block)
Idle ==
  [pc |-> "idle", op |-> "none", user |-> "", id |-> 0, amount |-> 0,
   category |-> "", date |-> NoDate, month |-> "", year |-> 0,
   old |-> NoDoc, todo |-> {}, cur |-> NoBudget, total |-> 0,
   status |-> 0, errorCode |-> 0, incs |-> 0, wrote |-> FALSE,
   alone |-> TRUE]

Init ==
  /\ expenses = {}
  /\ budgets = {}
  /\ nextExpenseId = 1
  /\ nextBudgetId = 1
  /\ lastOp = NoOp
  /\ served = 0
  /\ incomes = {}
  /\ nextIncomeId = 1
  /\ procs = [p \in ProcIds |-> Idle]
  /\ request = NoRequest
  /\ now = StartClock
  /\ response = NoResponse

----------------------------------------------------------------------------
(* Expense router *)

\* variant: the filter of the increment leaves out month and year
ExpenseCreateBudgetsAnyMonth(bs, userId, amount, category, date) ==
  { IF b.userId = userId /\ b.category = category
    THEN [b EXCEPT !.spentAmount = @ + amount]
    ELSE b : b \in bs }

\* variant: the adjustment stores the amount instead of adding it
ExpenseCreateBudgetsSet(bs, userId, amount, category, date) ==
  { IF /\ b.userId = userId /\ b.category = category
       /\ b.month = MonthLong(date) /\ b.year = getFullYear(date)
    THEN [b EXCEPT !.spentAmount = amount]
    ELSE b : b \in bs }

\* POST /expenses, the budget adjustment after expense.save()
ExpenseCreateBudgets(bs, userId, amount, category, date) ==
  IncSpent(bs, userId, category, MonthLong(date), getFullYear(date), amount)

\* POST /expenses
ExpenseCreate(u, amount, category, date) ==
  /\ Serve
  /\ nextExpenseId <= MaxExpenses
  /\ expenses' = expenses \cup
        { [id |-> nextExpenseId, userId |-> u, amount |-> amount,
           category |-> category, date |-> date] }
  /\ nextExpenseId' = nextExpenseId + 1
  /\ budgets' = ExpenseCreateBudgets(budgets, u, amount, category, date)
  /\ lastOp' = Op("expenseCreate", u, nextExpenseId, amount, category, date,
                  "", 0, NoDoc, 201)
  /\ UNCHANGED nextBudgetId

\* variant: the new amount is added instead of the difference
UpdateSameCategoryAddsNew(bs, userId, oldExpense, newAmount, category, newDate) ==
  IncSpent(bs, userId, category, MonthLong(newDate), getFullYear(newDate),
           newAmount)

\* PUT /expenses/:id, branch oldExpense.category === category
UpdateSameCategory(bs, userId, oldExpense, newAmount, category, newDate) ==
  LET amountDifference == newAmount - oldExpense.amount
      expenseMonth == MonthLong(newDate)
      expenseYear == getFullYear(newDate)
  IN IncSpent(bs, userId, category, expenseMonth, expenseYear,
              amountDifference)

\* variant: the old budget is not decremented
UpdateDifferentCategoryKeepsOld(bs, userId, oldExpense, newAmount, category, newDate) ==
  IncSpent(bs, userId, category, MonthLong(newDate), getFullYear(newDate),
           newAmount)

\* PUT /expenses/:id, branch of a changed category
UpdateDifferentCategory(bs, userId, oldExpense, newAmount, category, newDate) ==
  LET oldMonth == MonthLong(oldExpense.date)
      oldYear == getFullYear(oldExpense.date)
      newMonth == MonthLong(newDate)
      newYear == getFullYear(newDate)
      afterOld == IncSpent(bs, userId, oldExpense.category, oldMonth, oldYear,
                           0 - oldExpense.amount)
  IN IncSpent(afterOld, userId, category, newMonth, newYear, newAmount)

\* PUT /expenses/:id, the budget adjustment after the expense is written
ExpenseUpdateBudgets(bs, userId, oldExpense, newAmount, category, newDate) ==
  IF oldExpense.category = category
  THEN UpdateSameCategory(bs, userId, oldExpense, newAmount, category, newDate)
  ELSE UpdateDifferentCategory(bs, userId, oldExpense, newAmount, category,
                               newDate)

\* PUT /expenses/:id
ExpenseUpdate(u, id, newAmount, category, newDate) ==
  /\ Serve
  /\ LET found == { e \in expenses : e.id = id /\ e.userId = u }
     IN IF found = {}
        THEN /\ lastOp' = Op("expenseUpdate", u, id, 0, "", NoDate, "", 0,
                             NoDoc, 404)
             /\ UNCHANGED <<expenses, budgets, nextExpenseId, nextBudgetId>>
        ELSE LET oldExpense == CHOOSE e \in found : TRUE
             IN /\ expenses' = (expenses \ {oldExpense}) \cup
                      { [oldExpense EXCEPT !.amount = newAmount,
                                           !.category = category,
                                           !.date = newDate] }
                /\ budgets' = ExpenseUpdateBudgets(budgets, u, oldExpense,
                                                   newAmount, category, newDate)
                /\ lastOp' = Op("expenseUpdate", u, id, newAmount, category,
                                newDate, "", 0, oldExpense, 200)
                /\ UNCHANGED <<nextExpenseId, nextBudgetId>>

\* variant: the decrement is clamped at zero
ExpenseDeleteBudgetsClamped(bs, userId, expense) ==
  { IF /\ b.userId = userId /\ b.category = expense.category
       /\ b.month = MonthLong(expense.date)
       /\ b.year = getFullYear(expense.date)
    THEN [b EXCEPT !.spentAmount =
            IF @ - expense.amount < 0 THEN 0 ELSE @ - expense.amount]
    ELSE b : b \in bs }

\* DELETE /expenses/:id, the budget adjustment after findOneAndDelete
ExpenseDeleteBudgets(bs, userId, expense) ==
  IncSpent(bs, userId, expense.category, MonthLong(expense.date),
           getFullYear(expense.date), 0 - expense.amount)

\* DELETE /expenses/:id
ExpenseDelete(u, id) ==
  /\ Serve
  /\ LET found == { e \in expenses : e.id = id /\ e.userId = u }
     IN IF found = {}
        THEN /\ lastOp' = Op("expenseDelete", u, id, 0, "", NoDate, "", 0,
                             NoDoc, 404)
             /\ UNCHANGED <<expenses, budgets, nextExpenseId, nextBudgetId>>
        ELSE LET expense == CHOOSE e \in found : TRUE
             IN /\ expenses' = expenses \ {expense}
                /\ budgets' = ExpenseDeleteBudgets(budgets, u, expense)
                /\ lastOp' = Op("expenseDelete", u, id, 0, "", NoDate, "", 0,
                                expense, 200)
                /\ UNCHANGED <<nextExpenseId, nextBudgetId>>

----------------------------------------------------------------------------
(* Budget router *)

SameKey(b, userId, category, month, year) ==
  /\ b.userId = userId /\ b.category = category
  /\ b.month = month /\ b.year = year

\* POST /budget
BudgetCreate(u, category, budgetAmount, month, year) ==
  /\ Serve
  /\ nextBudgetId <= MaxBudgets
  /\ IF \E b \in budgets : SameKey(b, u, category, month, year)
     THEN /\ lastOp' = Op("budgetCreate", u, 0, budgetAmount, category,
                          NoDate, month, year, NoDoc, 400)
          /\ UNCHANGED <<expenses, budgets, nextExpenseId, nextBudgetId>>
     ELSE /\ budgets' = budgets \cup
                { [id |-> nextBudgetId, userId |-> u, category |-> category,
                   budgetAmount |-> budgetAmount,
                   spentAmount |-> ScanSpent(expenses, u, category, month,
                                             year),
                   month |-> month, year |-> year] }
          /\ nextBudgetId' = nextBudgetId + 1
          /\ lastOp' = Op("budgetCreate", u, nextBudgetId, budgetAmount,
                          category, NoDate, month, year, NoDoc, 201)
          /\ UNCHANGED <<expenses, nextExpenseId>>

\* PUT /budget/:id
BudgetUpdate(u, id, category, budgetAmount, month, year) ==
  /\ Serve
  /\ LET found == { b \in budgets : b.id = id /\ b.userId = u }
     IN IF found = {}
        THEN /\ lastOp' = Op("budgetUpdate", u, id, 0, "", NoDate, "", 0,
                             NoDoc, 404)
             /\ UNCHANGED <<expenses, budgets, nextExpenseId, nextBudgetId>>
        ELSE LET budget == CHOOSE b \in found : TRUE
             IN IF \E b \in budgets \ {budget} :
                      SameKey(b, u, category, month, year)
                THEN \* duplicate key error 11000 of the unique index
                     /\ lastOp' = Op("budgetUpdate", u, id, budgetAmount,
                                     category, NoDate, month, year, NoDoc, 400)
                     /\ UNCHANGED <<expenses, budgets, nextExpenseId,
                                    nextBudgetId>>
                ELSE /\ budgets' = (budgets \ {budget}) \cup
                           { [budget EXCEPT
                                !.category = category,
                                !.budgetAmount = budgetAmount,
                                !.month = month,
                                !.year = year,
                                !.spentAmount = ScanSpent(expenses, u, category,
                                                          month, year)] }
                     /\ lastOp' = Op("budgetUpdate", u, id, budgetAmount,
                                     category, NoDate, month, year, NoDoc, 200)
                     /\ UNCHANGED <<expenses, nextExpenseId, nextBudgetId>>

\* variant: the delete removes every budget of the category of the target
BudgetDeleteCategory(u, id) ==
  /\ Serve
  /\ LET found == { b \in budgets : b.id = id /\ b.userId = u }
     IN /\ budgets' =
             { b \in budgets :
                 \A f \in found : b.userId # u \/ b.category # f.category }
        /\ lastOp' = Op("budgetDelete", u, id, 0, "", NoDate, "", 0, NoDoc,
                        IF found = {} THEN 404 ELSE 200)
        /\ UNCHANGED <<expenses, nextExpenseId, nextBudgetId>>

\* DELETE /budget/:id
BudgetDelete(u, id) ==
  /\ Serve
  /\ LET found == { b \in budgets : b.id = id /\ b.userId = u }
     IN IF found = {}
        THEN /\ lastOp' = Op("budgetDelete", u, id, 0, "", NoDate, "", 0,
                             NoDoc, 404)
             /\ UNCHANGED <<expenses, budgets, nextExpenseId, nextBudgetId>>
        ELSE /\ budgets' = budgets \ found
             /\ lastOp' = Op("budgetDelete", u, id, 0, "", NoDate, "", 0,
                             NoDoc, 200)
             /\ UNCHANGED <<expenses, nextExpenseId, nextBudgetId>>

\* variant: the recomputed sum is added to the cached value
RefreshBudgetsAccumulating(bs, exps, userId) ==
  { IF b.userId = userId
    THEN [b EXCEPT !.spentAmount =
                      @ + ScanSpent(exps, userId, b.category, b.month, b.year)]
    ELSE b : b \in bs }

\* POST /budget/refresh, the loop over the budgets of the user
RefreshBudgets(bs, exps, userId) ==
  { IF b.userId = userId
    THEN [b EXCEPT !.spentAmount =
                      ScanSpent(exps, userId, b.category, b.month, b.year)]
    ELSE b : b \in bs }

\* POST /budget/refresh
BudgetRefresh(u) ==
  /\ Serve
  /\ budgets' = RefreshBudgets(budgets, expenses, u)
  /\ lastOp' = Op("budgetRefresh", u, 0, 0, "", NoDate, "", 0, NoDoc, 200)
  /\ UNCHANGED <<expenses, nextExpenseId, nextBudgetId>>

----------------------------------------------------------------------------

ExpenseIds == 1..MaxExpenses

BudgetIds == 1..MaxBudgets

Next ==
  \/ \E u \in Users, a \in Amounts, c \in Categories, d \in ExpenseDates :
        ExpenseCreate(u, a, c, d)
  \/ \E u \in Users, id \in ExpenseIds, a \in Amounts, c \in Categories,
        d \in ExpenseDates : ExpenseUpdate(u, id, a, c, d)
  \/ \E u \in Users, id \in ExpenseIds : ExpenseDelete(u, id)
  \/ \E u \in Users, c \in Categories, ba \in BudgetAmounts,
        m \in BudgetMonths, y \in BudgetYears : BudgetCreate(u, c, ba, m, y)
  \/ \E u \in Users, id \in BudgetIds, c \in Categories,
        ba \in BudgetAmounts, m \in BudgetMonths, y \in BudgetYears :
        BudgetUpdate(u, id, c, ba, m, y)
  \/ \E u \in Users, id \in BudgetIds : BudgetDelete(u, id)
  \/ \E u \in Users : BudgetRefresh(u)

Spec == Init /\ [][Next]_vars

----------------------------------------------------------------------------
(* Interleaved handlers: one step per awaited storage call *)

InFlight(q) == procs[q].pc \notin {"idle", "done", "crashed"}

\* no interleaved request has been started yet
NoneStarted == \A q \in ProcIds : procs[q].pc = "idle"

\* the handler of a request starts in slot p with local state rec; the
\* slots are taken in order
Launch(p, rec) ==
  /\ Accept
  /\ procs[p].pc = "idle"
  /\ p = "p1" \/ procs["p1"].pc # "idle"
  /\ procs' =
       [q \in ProcIds |->
          IF q = p
          THEN [rec EXCEPT !.alone = \A r \in ProcIds \ {p} : ~InFlight(r)]
          ELSE IF InFlight(q) THEN [procs[q] EXCEPT !.alone = FALSE]
          ELSE procs[q]]
  /\ UNCHANGED <<request, now, response>>

\* the handler in slot p moves on with local state rec
Continue(p, rec) ==
  /\ InFlight(p)
  /\ procs' = [procs EXCEPT ![p] = rec]
  /\ UNCHANGED <<served, request, now, response>>

\* variant: the collection has no unique index
DuplicateKeyNoIndex(bs, userId, category, month, year) == FALSE

\* the unique index {userId, category, month, year} rejects the insert
\* (error code 11000)
DuplicateKey(bs, userId, category, month, year) ==
  \E b \in bs : SameKey(b, userId, category, month, year)

\* budget creates that passed the existence check and have not saved yet
PendingBudgetCreates ==
  { q \in ProcIds : procs[q].op = "budgetCreate" /\ InFlight(q) }

\* POST /budget: Budget.findOne of the existence check
BudgetCreateFind(p, u, category, budgetAmount, month, year) ==
  LET exists == \E b \in budgets : SameKey(b, u, category, month, year)
  IN /\ nextBudgetId + Cardinality(PendingBudgetCreates) <= MaxBudgets
     /\ Launch(p, [Idle EXCEPT !.op = "budgetCreate", !.user = u,
                               !.amount = budgetAmount,
                               !.category = category,
                               !.month = month, !.year = year,
                               !.pc = IF exists THEN "done" ELSE "aggregate",
                               !.status = IF exists THEN 400 ELSE 0])
     /\ UNCHANGED <<expenses, budgets, nextExpenseId, nextBudgetId, lastOp,
                    incomes, nextIncomeId>>

\* POST /budget: Expense.aggregate of the seed
BudgetCreateAggregate(p) ==
  /\ procs[p].op = "budgetCreate" /\ procs[p].pc = "aggregate"
  /\ Continue(p, [procs[p] EXCEPT
                    !.total = ScanSpent(expenses, procs[p].user,
                                        procs[p].category, procs[p].month,
                                        procs[p].year),
                    !.pc = "save"])
  /\ UNCHANGED <<expenses, budgets, nextExpenseId, nextBudgetId, lastOp,
                 incomes, nextIncomeId>>

\* POST /budget: budget.save() and the response
BudgetCreateSave(p) ==
  LET r == procs[p]
  IN /\ r.op = "budgetCreate" /\ r.pc = "save"
     /\ IF DuplicateKey(budgets, r.user, r.category, r.month, r.year)
        THEN /\ Continue(p, [r EXCEPT !.pc = "done", !.status = 400,
                                      !.errorCode = 11000])
             /\ UNCHANGED <<budgets, nextBudgetId>>
        ELSE /\ budgets' = budgets \cup
                  { [id |-> nextBudgetId, userId |-> r.user,
                     category |-> r.category, budgetAmount |-> r.amount,
                     spentAmount |-> r.total, month |-> r.month,
                     year |-> r.year] }
             /\ nextBudgetId' = nextBudgetId + 1
             /\ Continue(p, [r EXCEPT !.pc = "done", !.status = 201,
                                      !.id = nextBudgetId])
     /\ UNCHANGED <<expenses, nextExpenseId, lastOp, incomes, nextIncomeId>>

\* variant: the response is sent without waiting for the budget adjustment
ExpenseCreateSavedResponds(rec) == [rec EXCEPT !.pc = "inc", !.status = 201]

\* POST /expenses: the handler after expense.save() resolved
ExpenseCreateSaved(rec) == [rec EXCEPT !.pc = "inc"]

\* POST /expenses: expense.save()
ExpenseCreateSave(p, u, amount, category, date) ==
  /\ nextExpenseId <= MaxExpenses
  /\ expenses' = expenses \cup
        { [id |-> nextExpenseId, userId |-> u, amount |-> amount,
           category |-> category, date |-> date] }
  /\ nextExpenseId' = nextExpenseId + 1
  /\ Launch(p, ExpenseCreateSaved(
                 [Idle EXCEPT !.op = "expenseCreate", !.user = u,
                              !.id = nextExpenseId, !.amount = amount,
                              !.category = category, !.date = date,
                              !.wrote = TRUE]))
  /\ UNCHANGED <<budgets, nextBudgetId, lastOp, incomes, nextIncomeId>>

\* POST /expenses: Budget.findOneAndUpdate and the response
ExpenseCreateInc(p) ==
  LET r == procs[p]
  IN /\ r.op = "expenseCreate" /\ r.pc = "inc"
     /\ budgets' = ExpenseCreateBudgets(budgets, r.user, r.amount,
                                        r.category, r.date)
     /\ Continue(p, [r EXCEPT !.pc = "done", !.status = 201,
                              !.incs = @ + 1])
     /\ UNCHANGED <<expenses, nextExpenseId, nextBudgetId, lastOp, incomes,
                    nextIncomeId>>

\* PUT /expenses/:id: Expense.findOne of oldExpense
ExpenseUpdateFind(p, u, id, newAmount, category, newDate) ==
  LET found == { e \in expenses : e.id = id /\ e.userId = u }
      req == [Idle EXCEPT !.op = "expenseUpdate", !.user = u, !.id = id,
                          !.amount = newAmount, !.category = category,
                          !.date = newDate]
  IN /\ IF found = {}
        THEN Launch(p, [req EXCEPT !.pc = "done", !.status = 404])
        ELSE Launch(p, [req EXCEPT !.pc = "write",
                                   !.old = CHOOSE e \in found : TRUE])
     /\ UNCHANGED <<expenses, budgets, nextExpenseId, nextBudgetId, lastOp,
                    incomes, nextIncomeId>>

\* PUT /expenses/:id: Expense.findOneAndUpdate; its result is not examined
ExpenseUpdateWrite(p) ==
  LET r == procs[p]
      found == { e \in expenses : e.id = r.id /\ e.userId = r.user }
  IN /\ r.op = "expenseUpdate" /\ r.pc = "write"
     /\ expenses' = (expenses \ found) \cup
           { [e EXCEPT !.amount = r.amount, !.category = r.category,
                       !.date = r.date] : e \in found }
     /\ Continue(p, [r EXCEPT !.pc = "inc", !.wrote = (found # {})])
     /\ UNCHANGED <<budgets, nextExpenseId, nextBudgetId, lastOp, incomes,
                    nextIncomeId>>

\* PUT /expenses/:id, changed category: "Subtract from old budget"
UpdateSubtractOld(bs, userId, oldExpense) ==
  IncSpent(bs, userId, oldExpense.category, MonthLong(oldExpense.date),
           getFullYear(oldExpense.date), 0 - oldExpense.amount)

\* PUT /expenses/:id, changed category: "Add to new budget"
UpdateAddNew(bs, userId, newAmount, category, newDate) ==
  IncSpent(bs, userId, category, MonthLong(newDate), getFullYear(newDate),
           newAmount)

\* PUT /expenses/:id: the first Budget.findOneAndUpdate
ExpenseUpdateInc(p) ==
  LET r == procs[p]
  IN /\ r.op = "expenseUpdate" /\ r.pc = "inc"
     /\ IF r.old.category = r.category
        THEN /\ budgets' = UpdateSameCategory(budgets, r.user, r.old,
                                              r.amount, r.category, r.date)
             /\ Continue(p, [r EXCEPT !.pc = "done", !.status = 200,
                                      !.incs = @ + 1])
        ELSE /\ budgets' = UpdateSubtractOld(budgets, r.user, r.old)
             /\ Continue(p, [r EXCEPT !.pc = "inc2", !.incs = @ + 1])
     /\ UNCHANGED <<expenses, nextExpenseId, nextBudgetId, lastOp, incomes,
                    nextIncomeId>>

\* PUT /expenses/:id, changed category: the second Budget.findOneAndUpdate
ExpenseUpdateInc2(p) ==
  LET r == procs[p]
  IN /\ r.op = "expenseUpdate" /\ r.pc = "inc2"
     /\ budgets' = UpdateAddNew(budgets, r.user, r.amount, r.category,
                                r.date)
     /\ Continue(p, [r EXCEPT !.pc = "done", !.status = 200,
                              !.incs = @ + 1])
     /\ UNCHANGED <<expenses, nextExpenseId, nextBudgetId, lastOp, incomes,
                    nextIncomeId>>

\* DELETE /expenses/:id: Expense.findOneAndDelete
ExpenseDeleteFind(p, u, id) ==
  LET found == { e \in expenses : e.id = id /\ e.userId = u }
      req == [Idle EXCEPT !.op = "expenseDelete", !.user = u, !.id = id]
  IN /\ IF found = {}
        THEN Launch(p, [req EXCEPT !.pc = "done", !.status = 404])
        ELSE Launch(p, [req EXCEPT !.pc = "inc", !.wrote = TRUE,
                                   !.old = CHOOSE e \in found : TRUE])
     /\ expenses' = expenses \ found
     /\ UNCHANGED <<budgets, nextExpenseId, nextBudgetId, lastOp, incomes,
                    nextIncomeId>>

\* DELETE /expenses/:id: Budget.findOneAndUpdate and the response
ExpenseDeleteInc(p) ==
  LET r == procs[p]
  IN /\ r.op = "expenseDelete" /\ r.pc = "inc"
     /\ budgets' = ExpenseDeleteBudgets(budgets, r.user, r.old)
     /\ Continue(p, [r EXCEPT !.pc = "done", !.status = 200,
                              !.incs = @ + 1])
     /\ UNCHANGED <<expenses, nextExpenseId, nextBudgetId, lastOp, incomes,
                    nextIncomeId>>

\* a Budget.findOneAndUpdate of an expense handler rejects (storage error):
\* the catch block answers 500
ExpenseIncFail(p) ==
  LET r == procs[p]
  IN /\ r.op \in {"expenseCreate", "expenseUpdate", "expenseDelete"}
     /\ r.pc \in {"inc", "inc2"}
     /\ Continue(p, [r EXCEPT !.pc = "done", !.status = 500])
     /\ UNCHANGED <<expenses, budgets, nextExpenseId, nextBudgetId, lastOp,
                    incomes, nextIncomeId>>

\* POST /budget/refresh: Budget.find
RefreshFind(p, u) ==
  LET loaded == { b \in budgets : b.userId = u }
      req == [Idle EXCEPT !.op = "budgetRefresh", !.user = u,
                          !.todo = loaded]
  IN /\ IF loaded = {}
        THEN Launch(p, [req EXCEPT !.pc = "done", !.status = 200])
        ELSE Launch(p, [req EXCEPT !.pc = "aggregate"])
     /\ UNCHANGED <<expenses, budgets, nextExpenseId, nextBudgetId, lastOp,
                    incomes, nextIncomeId>>

\* POST /budget/refresh: Expense.aggregate for the next budget of the loop
\* (Budget.find has no sort: any order)
RefreshAggregate(p) ==
  LET r == procs[p]
  IN /\ r.op = "budgetRefresh" /\ r.pc = "aggregate"
     /\ \E b \in r.todo :
          Continue(p, [r EXCEPT
                         !.cur = b,
                         !.total = ScanSpent(expenses, r.user, b.category,
                                             b.month, b.year),
                         !.pc = "save"])
     /\ UNCHANGED <<expenses, budgets, nextExpenseId, nextBudgetId, lastOp,
                    incomes, nextIncomeId>>

\* budget.spentAmount = total; budget.save(): the document sets the path
\* only when the value differs from the loaded one, and save() writes the
\* modified paths of the document with that _id
SaveSpent(bs, doc, total) ==
  IF total = doc.spentAmount
  THEN bs
  ELSE { IF b.id = doc.id THEN [b EXCEPT !.spentAmount = total] ELSE b
         : b \in bs }

\* POST /budget/refresh: budget.save(), then the next iteration or the
\* response
RefreshSave(p) ==
  LET r == procs[p]
      rest == r.todo \ {r.cur}
  IN /\ r.op = "budgetRefresh" /\ r.pc = "save"
     /\ budgets' = SaveSpent(budgets, r.cur, r.total)
     /\ IF rest = {}
        THEN Continue(p, [r EXCEPT !.todo = rest, !.pc = "done",
                                   !.status = 200])
        ELSE Continue(p, [r EXCEPT !.todo = rest, !.pc = "aggregate"])
     /\ UNCHANGED <<expenses, nextExpenseId, nextBudgetId, lastOp, incomes,
                    nextIncomeId>>

\* the refresh stops in its loop (the server crashes, or a storage call
\* rejects and the catch block answers); todo keeps the budgets whose
\* save() did not happen
RefreshCrash(p) ==
  LET r == procs[p]
  IN /\ r.op = "budgetRefresh" /\ InFlight(p)
     /\ Continue(p, [r EXCEPT !.pc = "crashed"])
     /\ UNCHANGED <<expenses, budgets, nextExpenseId, nextBudgetId, lastOp,
                    incomes, nextIncomeId>>

----------------------------------------------------------------------------
(* Interleaved specification: requests served one after the other set the  *)
(* scene, then each slot handles one request, step by step, with storage   *)
(* errors in the budget adjustment and a refresh that may stop early       *)

ConcCategories == {"Food"}

\* first and last instant of March 2024
ConcDates ==
  { [year |-> 2024, month |-> 2, day |-> 1,  ms |-> 0],
    [year |-> 2024, month |-> 2, day |-> 31, ms |-> 86399999] }

\* the date an interleaved update request carries
UpdateDates == { [year |-> 2024, month |-> 2, day |-> 1,  ms |-> 0] }

NextConc ==
  \/ \E u \in Users, a \in Amounts, c \in ConcCategories, d \in ConcDates :
        NoneStarted /\ ExpenseCreate(u, a, c, d)
  \/ \E u \in Users, c \in ConcCategories, ba \in BudgetAmounts,
        m \in BudgetMonths, y \in BudgetYears :
        NoneStarted /\ BudgetCreate(u, c, ba, m, y)
  \/ \E p \in ProcIds, u \in Users, c \in ConcCategories,
        ba \in BudgetAmounts, m \in BudgetMonths, y \in BudgetYears :
        BudgetCreateFind(p, u, c, ba, m, y)
  \/ \E p \in ProcIds : BudgetCreateAggregate(p)
  \/ \E p \in ProcIds : BudgetCreateSave(p)
  \/ \E p \in ProcIds, u \in Users, a \in Amounts, c \in ConcCategories,
        d \in ConcDates : ExpenseCreateSave(p, u, a, c, d)
  \/ \E p \in ProcIds : ExpenseCreateInc(p)
  \/ \E p \in ProcIds, u \in Users, id \in ExpenseIds, a \in Amounts,
        c \in Categories, d \in UpdateDates :
        ExpenseUpdateFind(p, u, id, a, c, d)
  \/ \E p \in ProcIds : ExpenseUpdateWrite(p)
  \/ \E p \in ProcIds : ExpenseUpdateInc(p)
  \/ \E p \in ProcIds : ExpenseUpdateInc2(p)
  \/ \E p \in ProcIds, u \in Users, id \in ExpenseIds :
        ExpenseDeleteFind(p, u, id)
  \/ \E p \in ProcIds : ExpenseDeleteInc(p)
  \/ \E p \in ProcIds : ExpenseIncFail(p)
  \/ \E p \in ProcIds, u \in Users : RefreshFind(p, u)
  \/ \E p \in ProcIds : RefreshAggregate(p)
  \/ \E p \in ProcIds : RefreshSave(p)
  \/ \E p \in ProcIds : RefreshCrash(p)

SpecConc == Init /\ [][NextConc]_vars

----------------------------------------------------------------------------
(* Concurrent expense writers: budgets and expenses are first set up by    *)
(* requests served one after the other; then two slots create expenses,    *)
(* delete expenses and update expenses within their category and month,    *)
(* each expense being the target of one request at a time                  *)

\* first instant of March 2024 and of April 2024
WriterDates ==
  { [year |-> 2024, month |-> 2, day |-> 1, ms |-> 0],
    [year |-> 2024, month |-> 3, day |-> 1, ms |-> 0] }

\* no request in flight has the expense as its target
Untargeted(id) == \A q \in ProcIds : InFlight(q) => procs[q].id # id

\* the update leaves the expense in its category and (month, year) bucket
SameBucketRequest(id, category, date) ==
  \A e \in expenses :
    e.id = id => e.category = category /\ BucketOf(e.date) = BucketOf(date)

NextWriters ==
  \/ \E u \in Users, a \in Amounts, c \in ConcCategories, d \in WriterDates :
        NoneStarted /\ ExpenseCreate(u, a, c, d)
  \/ \E u \in Users, c \in ConcCategories, ba \in BudgetAmounts,
        m \in BudgetMonths, y \in BudgetYears :
        NoneStarted /\ BudgetCreate(u, c, ba, m, y)
  \/ \E p \in ProcIds, u \in Users, a \in Amounts, c \in ConcCategories,
        d \in WriterDates : ExpenseCreateSave(p, u, a, c, d)
  \/ \E p \in ProcIds : ExpenseCreateInc(p)
  \/ \E p \in ProcIds, u \in Users, id \in ExpenseIds, a \in Amounts,
        c \in ConcCategories, d \in WriterDates :
        /\ Untargeted(id) /\ SameBucketRequest(id, c, d)
        /\ ExpenseUpdateFind(p, u, id, a, c, d)
  \/ \E p \in ProcIds : ExpenseUpdateWrite(p)
  \/ \E p \in ProcIds : ExpenseUpdateInc(p)
  \/ \E p \in ProcIds, u \in Users, id \in ExpenseIds :
        Untargeted(id) /\ ExpenseDeleteFind(p, u, id)
  \/ \E p \in ProcIds : ExpenseDeleteInc(p)

SpecWriters == Init /\ [][NextWriters]_vars

----------------------------------------------------------------------------
(* Ledger specification: the requests are served one after the other and   *)
(* pass through the validation middleware of their route; the income       *)
(* router is included                                                      *)

\* POST /income
IncomeCreate(u, amount, category, date) ==
  /\ Accept
  /\ request' = NoRequest
  /\ UNCHANGED <<now, response>>
  /\ nextIncomeId <= MaxIncomes
  /\ incomes' = incomes \cup
        { [id |-> nextIncomeId, userId |-> u, amount |-> amount,
           category |-> category, date |-> date] }
  /\ nextIncomeId' = nextIncomeId + 1
  /\ lastOp' = Op("incomeCreate", u, nextIncomeId, amount, category, date,
                  "", 0, NoDoc, 201)
  /\ UNCHANGED <<expenses, budgets, nextExpenseId, nextBudgetId, procs>>

\* PUT /income/:id
IncomeUpdate(u, id, amount, category, date) ==
  /\ Accept
  /\ request' = NoRequest
  /\ UNCHANGED <<now, response>>
  /\ LET found == { i \in incomes : i.id = id /\ i.userId = u }
     IN IF found = {}
        THEN /\ lastOp' = Op("incomeUpdate", u, id, 0, "", NoDate, "", 0,
                             NoDoc, 404)
             /\ UNCHANGED incomes
        ELSE /\ incomes' = (incomes \ found) \cup
                   { [i EXCEPT !.amount = amount, !.category = category,
                               !.date = date] : i \in found }
             /\ lastOp' = Op("incomeUpdate", u, id, amount, category, date,
                             "", 0, NoDoc, 200)
  /\ UNCHANGED <<expenses, budgets, nextExpenseId, nextBudgetId,
                 nextIncomeId, procs>>

\* DELETE /income/:id
IncomeDelete(u, id) ==
  /\ Accept
  /\ request' = NoRequest
  /\ UNCHANGED <<now, response>>
  /\ LET found == { i \in incomes : i.id = id /\ i.userId = u }
     IN /\ incomes' = incomes \ found
        /\ lastOp' = Op("incomeDelete", u, id, 0, "", NoDate, "", 0, NoDoc,
                        IF found = {} THEN 404 ELSE 200)
  /\ UNCHANGED <<expenses, budgets, nextExpenseId, nextBudgetId,
                 nextIncomeId, procs>>

\* the field values the requests of the ledger specification carry, and the
\* ones among them that are well formed
DescriptionLengths == {0, 200, 201}
AmountStrings == { <<"a", "b", "c">>, <<"-", "1">>, <<"0">>, <<"1">>, <<"2">> }
CategoryStrings == {"", "Food"}
DateStrings == {"31/03/2024", "2024-03-01T00:00:00.000"}
BudgetAmountStrings == { <<"-", "5">>, <<"0">>, <<"5">> }
MonthStrings == {"March", "April", "march"}
YearStrings == { <<"2", "0", "1", "9">>, <<"2", "0", "2", "4">>,
                 <<"2", "0", "3", "1">> }

WellFormed ==
  [description |-> {200}, amount |-> { <<"1">>, <<"2">> },
   category |-> {"Food"}, date |-> DOMAIN IsoDates,
   budgetAmount |-> { <<"5">>, <<>> }, month |-> {"March", "April", ""},
   year |-> { <<"2", "0", "2", "4">>, <<>> }]

\* the number of fields of a body that are not well formed
OddFields(body, fields) ==
  Cardinality({ f \in fields : body[f] \notin WellFormed[f] })

\* a request body has at most this many fields that are not well formed
MaxOddFields == 1

TransactionBodies ==
  { b \in { TransactionBody(d, a, c, dt) :
              d \in DescriptionLengths, a \in AmountStrings,
              c \in CategoryStrings, dt \in DateStrings } :
      OddFields(b, {"description", "amount", "category", "date"})
        <= MaxOddFields }

BudgetBodies ==
  { b \in { BudgetBody(c, ba, m, y) :
              c \in CategoryStrings, ba \in BudgetAmountStrings,
              m \in MonthStrings, y \in YearStrings } :
      OddFields(b, {"category", "budgetAmount", "month", "year"})
        <= MaxOddFields }

IncomeIds == 1..MaxIncomes

\* the validation result of every body the requests carry
TransactionValidation ==
  [b \in TransactionBodies |-> validateTransaction(b)]

BudgetValidation == [b \in BudgetBodies |-> validateBudget(b)]

\* the validation chains of a route
ValidationErrors(route, body) ==
  IF route \in {"budgetCreate", "budgetUpdate"}
  THEN BudgetValidation[body]
  ELSE TransactionValidation[body]

\* a request reaches a validated route: the validation chains collect their
\* errors and handleValidationErrors answers 400 'Validation failed', or
\* calls next() and leaves the request to the handler
Receive(route, u, id, body) ==
  LET errs == ValidationErrors(route, body)
  IN /\ ~request.pending
     /\ served < MaxRequests
     /\ request' = [pending |-> errs = {}, route |-> route, user |-> u,
                    id |-> id, body |-> body, errors |-> errs]
     /\ IF errs # {}
        THEN /\ served' = served + 1
             /\ lastOp' = Op(route, u, id, 0, "", NoDate, "", 0, NoDoc, 400)
        ELSE UNCHANGED <<served, lastOp>>
     /\ UNCHANGED <<expenses, budgets, incomes, nextExpenseId, nextBudgetId,
                    nextIncomeId, procs, now, response>>

\* the handler of the route runs on the request that passed validation
Pending(route) == request.pending /\ request.route = route

ExpensePost ==
  /\ Pending("expenseCreate")
  /\ ExpenseCreate(request.user, parseFloat(request.body.amount).value,
                   request.body.category, NewDateOf(request.body.date))

ExpensePut ==
  /\ Pending("expenseUpdate")
  /\ ExpenseUpdate(request.user, request.id,
                   parseFloat(request.body.amount).value,
                   request.body.category, NewDateOf(request.body.date))

IncomePost ==
  /\ Pending("incomeCreate")
  /\ IncomeCreate(request.user, parseFloat(request.body.amount).value,
                  request.body.category, NewDateOf(request.body.date))

IncomePut ==
  /\ Pending("incomeUpdate")
  /\ IncomeUpdate(request.user, request.id,
                  parseFloat(request.body.amount).value,
                  request.body.category, NewDateOf(request.body.date))

BudgetPost ==
  /\ Pending("budgetCreate")
  /\ BudgetCreate(request.user, request.body.category,
                  parseFloat(request.body.budgetAmount).value,
                  request.body.month, parseInt(request.body.year).value)

BudgetPut ==
  /\ Pending("budgetUpdate")
  /\ BudgetUpdate(request.user, request.id, request.body.category,
                  parseFloat(request.body.budgetAmount).value,
                  request.body.month, parseInt(request.body.year).value)

NextLedger ==
  \/ \E u \in Users, b \in TransactionBodies :
        Receive("expenseCreate", u, 0, b)
  \/ \E u \in Users, id \in ExpenseIds, b \in TransactionBodies :
        Receive("expenseUpdate", u, id, b)
  \/ \E u \in Users, b \in TransactionBodies :
        Receive("incomeCreate", u, 0, b)
  \/ \E u \in Users, id \in IncomeIds, b \in TransactionBodies :
        Receive("incomeUpdate", u, id, b)
  \/ \E u \in Users, b \in BudgetBodies : Receive("budgetCreate", u, 0, b)
  \/ \E u \in Users, id \in BudgetIds, b \in BudgetBodies :
        Receive("budgetUpdate", u, id, b)
  \/ ExpensePost
  \/ ExpensePut
  \/ IncomePost
  \/ IncomePut
  \/ BudgetPost
  \/ BudgetPut
  \/ \E u \in Users, id \in ExpenseIds :
        ~request.pending /\ ExpenseDelete(u, id)
  \/ \E u \in Users, id \in IncomeIds :
        ~request.pending /\ IncomeDelete(u, id)
  \/ \E u \in Users, id \in BudgetIds :
        ~request.pending /\ BudgetDelete(u, id)
  \/ \E u \in Users : ~request.pending /\ BudgetRefresh(u)

SpecLedger == Init /\ [][NextLedger]_vars

----------------------------------------------------------------------------
(* Two owners: the requests of two authenticated users are served one      *)
(* after the other on shared collections                                   *)

\* req.userId of the two sessions
Owners == {"u1", "u2"}

OwnerDates == { [year |-> 2024, month |-> 2, day |-> 1, ms |-> 0] }

OwnerMonths == {"March"}

NextOwners ==
  \/ \E u \in Owners, a \in Amounts, c \in ConcCategories, d \in OwnerDates :
        ExpenseCreate(u, a, c, d)
  \/ \E u \in Owners, id \in ExpenseIds, a \in Amounts, c \in ConcCategories,
        d \in OwnerDates : ExpenseUpdate(u, id, a, c, d)
  \/ \E u \in Owners, id \in ExpenseIds : ExpenseDelete(u, id)
  \/ \E u \in Owners, c \in ConcCategories, ba \in BudgetAmounts,
        m \in OwnerMonths, y \in BudgetYears : BudgetCreate(u, c, ba, m, y)
  \/ \E u \in Owners, id \in BudgetIds, c \in ConcCategories,
        ba \in BudgetAmounts, m \in OwnerMonths, y \in BudgetYears :
        BudgetUpdate(u, id, c, ba, m, y)
  \/ \E u \in Owners, id \in BudgetIds : BudgetDelete(u, id)
  \/ \E u \in Owners : BudgetRefresh(u)
  \/ \E u \in Owners, a \in Amounts, c \in ConcCategories, d \in OwnerDates :
        IncomeCreate(u, a, c, d)
  \/ \E u \in Owners, id \in IncomeIds, a \in Amounts, c \in ConcCategories,
        d \in OwnerDates : IncomeUpdate(u, id, a, c, d)
  \/ \E u \in Owners, id \in IncomeIds : IncomeDelete(u, id)

SpecOwners == Init /\ [][NextOwners]_vars

----------------------------------------------------------------------------
(* Ledger mutations next to budgets: the expense and income handlers and   *)
(* the budget create of one owner, served one after the other              *)

NextFrame ==
  \/ \E u \in Users, a \in Amounts, c \in Categories, d \in ExpenseDates :
        ExpenseCreate(u, a, c, d)
  \/ \E u \in Users, id \in ExpenseIds, a \in Amounts, c \in Categories,
        d \in ExpenseDates : ExpenseUpdate(u, id, a, c, d)
  \/ \E u \in Users, id \in ExpenseIds : ExpenseDelete(u, id)
  \/ \E u \in Users, c \in Categories, ba \in BudgetAmounts,
        m \in BudgetMonths, y \in BudgetYears : BudgetCreate(u, c, ba, m, y)
  \/ \E u \in Users, a \in Amounts, c \in ConcCategories, d \in OwnerDates :
        IncomeCreate(u, a, c, d)
  \/ \E u \in Users, id \in IncomeIds, a \in Amounts, c \in ConcCategories,
        d \in OwnerDates : IncomeUpdate(u, id, a, c, d)
  \/ \E u \in Users, id \in IncomeIds : IncomeDelete(u, id)

SpecFrame == Init /\ [][NextFrame]_vars

----------------------------------------------------------------------------
(* Aggregations: dashboard, reports, trend, category performance and       *)
(* expense statistics.  The $year, $month and $dayOfMonth operators of the *)
(* storage work in UTC; the server's time zone is taken to be UTC, so that *)
(* they agree with the local-time fields of a Date.                        *)

\* new Date(year, monthIndex, day, ...) with the time of day given in
\* milliseconds: a monthIndex outside 0..11 and a day outside the month
\* carry into the neighbouring months and years
RECURSIVE MakeDate(_, _, _, _)
MakeDate(year, monthIndex, day, ms) ==
  LET y == year + (monthIndex \div 12)
      m == monthIndex % 12
      py == IF m = 0 THEN y - 1 ELSE y
      pm == IF m = 0 THEN 11 ELSE m - 1
  IN IF day < 1
     THEN MakeDate(py, pm, day + DaysInMonth(py, pm), ms)
     ELSE IF day > DaysInMonth(y, m)
     THEN MakeDate(y, m + 1, day - DaysInMonth(y, m), ms)
     ELSE [year |-> y, month |-> m, day |-> day, ms |-> ms]

\* date.getDay(): 0 is Sunday
getDay(date) ==
  LET t == << 0, 3, 2, 5, 0, 3, 5, 1, 4, 6, 2, 4 >>
      y == IF date.month < 2 THEN date.year - 1 ELSE date.year
  IN (y + (y \div 4) - (y \div 100) + (y \div 400) + t[date.month + 1]
        + date.day) % 7

monthsShort ==
  << "Jan", "Feb", "Mar", "Apr", "May", "Jun",
     "Jul", "Aug", "Sep", "Oct", "Nov", "Dec" >>

\* monthStart.toLocaleString('default', { month: 'short' }) and, with
\* year: 'numeric', the year next to it (0: no year in the label)
MonthLabel(date, withYear) ==
  [name |-> monthsShort[date.month + 1],
   year |-> IF withYear THEN date.year ELSE 0]

\* $match: { userId, date: { $gte: start, $lte: end } }
InRange(docs, userId, start, end) ==
  { d \in docs : /\ d.userId = userId
                 /\ DateLE(start, d.date)
                 /\ DateLE(d.date, end) }

\* $group: { _id: '$category', amount: { $sum: '$amount' },
\*           count: { $sum: 1 } }
CategoryGroups(docs) ==
  { [name |-> c,
     amount |-> SumAmounts({ d \in docs : d.category = c }),
     count |-> Cardinality({ d \in docs : d.category = c })] :
    c \in { d.category : d \in docs } }

\* $sort: { amount: -1 }: every order of the groups with descending sums
\* (groups with equal sums come in any order)
RECURSIVE SortedDesc(_)
SortedDesc(S) ==
  IF S = {} THEN { <<>> }
  ELSE UNION { { <<x>> \o rest : rest \in SortedDesc(S \ {x}) } :
               x \in { g \in S : \A h \in S : h.amount <= g.amount } }

\* $limit: n
Limit(seq, n) == SubSeq(seq, 1, IF Len(seq) < n THEN Len(seq) ELSE n)

\* the loop "for (let i = n - 1; i >= 0; i--)" over the trailing months:
\* monthStart = new Date(y, m - i, 1), monthEnd = new Date(y, m - i + 1, 0,
\* 23, 59, 59), one tuple pushed per iteration
MonthlyData(exps, incs, userId, clock, n, withYear) ==
  IF n < 1 THEN <<>>
  ELSE [k \in 1..n |->
          LET monthStart == MakeDate(clock.year, clock.month - (n - k), 1, 0)
              monthEnd == MakeDate(clock.year, clock.month - (n - k) + 1, 0,
                                   86399000)
          IN [month |-> MonthLabel(monthStart, withYear),
              income |->
                SumAmounts(InRange(incs, userId, monthStart, monthEnd)),
              expenses |->
                SumAmounts(InRange(exps, userId, monthStart, monthEnd))]]

DigitChars == << "0", "1", "2", "3", "4", "5", "6", "7", "8", "9" >>

\* the decimal digits of a natural number (template literal, Number -> String)
RECURSIVE ToDigits(_)
ToDigits(n) ==
  IF n < 10 THEN << DigitChars[n + 1] >>
  ELSE ToDigits(n \div 10) \o << DigitChars[(n % 10) + 1] >>

\* `${item._id.year}-${item._id.month}-${item._id.day}` of the day of a date
DayKey(date) ==
  ToDigits(date.year) \o << "-" >> \o ToDigits(date.month + 1)
    \o << "-" >> \o ToDigits(date.day)

\* UTF-16 code unit of the characters of a key
CharCode(c) == IF c = "-" THEN 45 ELSE 48 + DigitValue(c)

\* the order of Array.prototype.sort() without comparator: strings by code
\* units
RECURSIVE LexLess(_, _)
LexLess(s, t) ==
  IF t = <<>> THEN FALSE
  ELSE IF s = <<>> THEN TRUE
  ELSE IF s[1] = t[1] THEN LexLess(Tail(s), Tail(t))
  ELSE CharCode(s[1]) < CharCode(t[1])

\* Array.from(allDays).sort()
RECURSIVE SortKeys(_)
SortKeys(S) ==
  IF S = {} THEN <<>>
  ELSE LET first == CHOOSE x \in S : \A y \in S \ {x} : LexLess(x, y)
       IN << first >> \o SortKeys(S \ {first})

\* key.split('-')
RECURSIVE SplitDash(_)
SplitDash(s) ==
  IF \A i \in 1..Len(s) : s[i] # "-" THEN << s >>
  ELSE LET i == CHOOSE j \in 1..Len(s) :
                  s[j] = "-" /\ \A k \in 1..(j - 1) : s[k] # "-"
       IN << SubSeq(s, 1, i - 1) >> \o SplitDash(SubSeq(s, i + 1, Len(s)))

\* two digits, zero padded
Pad2(n) == IF n < 10 THEN << "0" >> \o ToDigits(n) ELSE ToDigits(n)

\* date.toISOString().split('T')[0]
IsoDay(date) ==
  ToDigits(date.year) \o << "-" >> \o Pad2(date.month + 1)
    \o << "-" >> \o Pad2(date.day)

\* the dailyTrend of the reports: the two daily groupings keyed by day, the
\* keys of both sorted, one tuple per key
DailyTrend(exps, incs) ==
  LET dailyIncomeMap == [k \in { DayKey(d.date) : d \in incs } |->
                           SumAmounts({ d \in incs : DayKey(d.date) = k })]
      dailyExpenseMap == [k \in { DayKey(d.date) : d \in exps } |->
                            SumAmounts({ d \in exps : DayKey(d.date) = k })]
      allDays == DOMAIN dailyIncomeMap \cup DOMAIN dailyExpenseMap
      keys == SortKeys(allDays)
      Tuple(key) ==
        LET parts == SplitDash(key)
            date == MakeDate(DecimalValue(parts[1]),
                             DecimalValue(parts[2]) - 1,
                             DecimalValue(parts[3]), 0)
            income == IF key \in DOMAIN dailyIncomeMap
                      THEN dailyIncomeMap[key] ELSE 0
            spent == IF key \in DOMAIN dailyExpenseMap
                     THEN dailyExpenseMap[key] ELSE 0
        IN [date |-> IsoDay(date), income |-> income, expenses |-> spent,
            balance |-> income - spent]
  IN [k \in 1..Len(keys) |-> Tuple(keys[k])]

\* the date strings of the queries with the Date that new Date(string)
\* builds from them (date-only form: midnight UTC)
QueryDates ==
  [ s \in {"2024-03-01", "2024-03-31"} |->
      IF s = "2024-03-01"
      THEN [year |-> 2024, month |-> 2, day |-> 1,  ms |-> 0]
      ELSE [year |-> 2024, month |-> 2, day |-> 31, ms |-> 0] ]

\* date.setHours(23, 59, 59, 999)
EndOfDay(date) == [date EXCEPT !.ms = 86399999]

\* start and end of GET /reports and GET /reports/categories/:type
ReportStart(startDate) ==
  IF startDate # "" THEN QueryDates[startDate]
  ELSE MakeDate(now.year, now.month, 1, 0)

ReportEnd(endDate) ==
  EndOfDay(IF endDate # "" THEN QueryDates[endDate] ELSE now)

Answer(route, u, status, query, start, end, inc, exp, cats, series, daily) ==
  [route |-> route, user |-> u, status |-> status,
   query |-> query, start |-> start, end |-> end,
   totalIncome |-> inc, totalExpenses |-> exp,
   categoryData |-> cats, monthlyData |-> series, dailyTrend |-> daily]

\* the aggregations only read
ReadOnly ==
  UNCHANGED <<expenses, budgets, nextExpenseId, nextBudgetId, lastOp,
              served, incomes, nextIncomeId, procs, request, now>>

\* GET /dashboard?period=...: in the 'week' case now.setDate(...) moves the
\* handler's own now to the Sunday of the week, and the monthly loop that
\* follows reads that moved value; endDate is taken from a fresh clock
Dashboard(u, period) ==
  LET sunday == MakeDate(now.year, now.month, now.day - getDay(now), now.ms)
      clock == IF period = "week" THEN sunday ELSE now
      startDate == IF period = "week" THEN [sunday EXCEPT !.ms = 0]
                   ELSE IF period = "year" THEN MakeDate(now.year, 0, 1, 0)
                   ELSE MakeDate(now.year, now.month, 1, 0)
      endDate == IF period = "week" THEN EndOfDay(now)
                 ELSE IF period = "year"
                 THEN MakeDate(now.year, 11, 31, 86399000)
                 ELSE MakeDate(now.year, now.month + 1, 0, 86399000)
      inc == InRange(incomes, u, startDate, endDate)
      exp == InRange(expenses, u, startDate, endDate)
  IN /\ \E sorted \in SortedDesc(CategoryGroups(exp)) :
          response' =
            Answer("dashboard", u, 200, Query(period, "", "", <<>>, ""),
                   startDate, endDate, SumAmounts(inc), SumAmounts(exp),
                   Limit(sorted, 10),
                   MonthlyData(expenses, incomes, u, clock, 6, FALSE), <<>>)
     /\ ReadOnly

\* GET /reports?startDate=...&endDate=...
Reports(u, startDate, endDate) ==
  LET start == ReportStart(startDate)
      end == ReportEnd(endDate)
      inc == InRange(incomes, u, start, end)
      exp == InRange(expenses, u, start, end)
  IN /\ \E sorted \in SortedDesc(CategoryGroups(exp)) :
          response' =
            Answer("reports", u, 200, Query("", startDate, endDate, <<>>, ""),
                   start, end, SumAmounts(inc), SumAmounts(exp), sorted,
                   MonthlyData(expenses, incomes, u, now, 6, TRUE),
                   DailyTrend(exp, inc))
     /\ ReadOnly

\* the bound of the loop of GET /reports/trend: parseInt(months) with
\* months = 6 when the parameter is absent; NaN runs no iteration
TrendMonths(monthsParam) ==
  IF monthsParam = <<>> THEN 6
  ELSE IF parseInt(monthsParam).nan THEN 0
  ELSE parseInt(monthsParam).value

\* GET /reports/trend?months=...
Trend(u, monthsParam) ==
  /\ response' =
       Answer("trend", u, 200, Query("", "", "", monthsParam, ""),
              NoDate, NoDate, 0, 0, <<>>,
              MonthlyData(expenses, incomes, u, now,
                          TrendMonths(monthsParam), TRUE),
              <<>>)
  /\ ReadOnly

\* GET /reports/categories/:type?startDate=...&endDate=...
CategoryPerformance(u, type, startDate, endDate) ==
  LET start == ReportStart(startDate)
      end == ReportEnd(endDate)
      docs == InRange(IF type = "income" THEN incomes ELSE expenses,
                      u, start, end)
      query == Query("", startDate, endDate, <<>>, type)
  IN /\ IF type \notin {"income", "expense"}
        THEN response' = Answer("categories", u, 400, query, NoDate, NoDate,
                                0, 0, <<>>, <<>>, <<>>)
        ELSE \E sorted \in SortedDesc(CategoryGroups(docs)) :
               response' =
                 Answer("categories", u, 200, query, start, end,
                        IF type = "income" THEN SumAmounts(docs) ELSE 0,
                        IF type = "expense" THEN SumAmounts(docs) ELSE 0,
                        sorted, <<>>, <<>>)
     /\ ReadOnly

\* GET /expenses/stats/summary?startDate=...&endDate=...: the date filter
\* is applied only when both parameters are present
StatsSummary(u, startDate, endDate) ==
  LET ranged == startDate # "" /\ endDate # ""
      start == IF ranged THEN QueryDates[startDate] ELSE NoDate
      end == IF ranged THEN QueryDates[endDate] ELSE NoDate
      docs == IF ranged THEN InRange(expenses, u, start, end)
              ELSE { d \in expenses : d.userId = u }
  IN /\ \E sorted \in SortedDesc(CategoryGroups(docs)) :
          response' =
            Answer("stats", u, 200, Query("", startDate, endDate, <<>>, ""),
                   start, end, 0, SumAmounts(docs), sorted, <<>>, <<>>)
     /\ ReadOnly

\* GET /admin/reports?startDate=...&endDate=... (getSystemReports): totals
\* over the ledgers of every owner, filtered by date only when both
\* parameters are present
SystemReports(u, startDate, endDate) ==
  LET ranged == startDate # "" /\ endDate # ""
      start == IF ranged THEN QueryDates[startDate] ELSE NoDate
      end == IF ranged THEN EndOfDay(QueryDates[endDate]) ELSE NoDate
      Match(docs) == IF ranged
                     THEN { d \in docs : /\ DateLE(start, d.date)
                                         /\ DateLE(d.date, end) }
                     ELSE docs
  IN /\ response' =
          Answer("system", u, 200, Query("", startDate, endDate, <<>>, ""),
                 start, end, SumAmounts(Match(incomes)),
                 SumAmounts(Match(expenses)), <<>>, <<>>, <<>>)
     /\ ReadOnly

\* the clocks of the aggregation requests: Friday 15 March 2024, Wednesday
\* 1 May 2024 (its week began on Sunday 28 April) and Wednesday 10 January
\* 2024 (its window of months reaches into 2023)
ReportClocks ==
  { [year |-> 2024, month |-> 2, day |-> 15, ms |-> 43200000],
    [year |-> 2024, month |-> 4, day |-> 1,  ms |-> 32400000],
    [year |-> 2024, month |-> 0, day |-> 10, ms |-> 32400000] }

Doc(id, userId, amount, category, date) ==
  [id |-> id, userId |-> userId, amount |-> amount, category |-> category,
   date |-> date]

ExpensePool ==
  { Doc(1, "u1", 5, "Food",
        [year |-> 2024, month |-> 2, day |-> 9, ms |-> 36000000]),
    Doc(2, "u1", 3, "Food",
        [year |-> 2024, month |-> 2, day |-> 10, ms |-> 0]),
    Doc(3, "u1", 2, "Transport",
        [year |-> 2024, month |-> 2, day |-> 31, ms |-> 86399500]),
    Doc(4, "u1", 4, "Rent",
        [year |-> 2023, month |-> 9, day |-> 1, ms |-> 0]),
    Doc(5, "u2", 7, "Food",
        [year |-> 2024, month |-> 2, day |-> 9, ms |-> 36000000]) }

CategoryNames ==
  << "Bills", "Books", "Food", "Fuel", "Gifts", "Health", "Pets", "Rent",
     "Sport", "Transport", "Travel" >>

\* a ledger with one expense in each of eleven categories, the sums all
\* different
ManyCategories ==
  { Doc(k, "u1", k, CategoryNames[k],
        [year |-> 2024, month |-> 2, day |-> 5, ms |-> 0]) :
    k \in 1..Len(CategoryNames) }

IncomePool ==
  { Doc(1, "u1", 10, "Salary",
        [year |-> 2024, month |-> 2, day |-> 9, ms |-> 0]),
    Doc(2, "u1", 6, "Gift",
        [year |-> 2024, month |-> 1, day |-> 29, ms |-> 86399999]) }

Periods == {"week", "month", "year"}

RangeStrings == {"", "2024-03-01", "2024-03-31"}

MonthsParams == { <<>>, <<"1">>, <<"3">>, <<"x">> }

TypeStrings == {"income", "expense", "incomes"}

InitReports ==
  /\ expenses \in (SUBSET ExpensePool) \cup {ManyCategories}
  /\ incomes \in SUBSET IncomePool
  /\ now \in ReportClocks
  /\ budgets = {}
  /\ nextExpenseId = 1
  /\ nextBudgetId = 1
  /\ nextIncomeId = 1
  /\ lastOp = NoOp
  /\ served = 0
  /\ procs = [p \in ProcIds |-> Idle]
  /\ request = NoRequest
  /\ response = NoResponse

\* the owner whose session sends the aggregation requests
ReportUsers == {"u1"}

NextReports ==
  \/ \E u \in ReportUsers, period \in Periods : Dashboard(u, period)
  \/ \E u \in ReportUsers, s \in RangeStrings, e \in RangeStrings :
        Reports(u, s, e)
  \/ \E u \in ReportUsers, m \in MonthsParams : Trend(u, m)
  \/ \E u \in ReportUsers, t \in TypeStrings, s \in RangeStrings,
        e \in RangeStrings : CategoryPerformance(u, t, s, e)
  \/ \E u \in ReportUsers, s \in RangeStrings, e \in RangeStrings :
        StatsSummary(u, s, e)
  \/ \E u \in ReportUsers, s \in RangeStrings, e \in RangeStrings :
        SystemReports(u, s, e)

SpecReports == InitReports /\ [][NextReports]_vars

----------------------------------------------------------------------------
(* Vocabulary of the properties *)

ExpenseOps == {"expenseCreate", "expenseUpdate", "expenseDelete"}

\* first and last instant of a calendar month
MonthStart(month, year) ==
  [year |-> year, month |-> getMonthIndex(month), day |-> 1, ms |-> 0]

MonthEnd(month, year) ==
  [year |-> year, month |-> getMonthIndex(month),
   day |-> DaysInMonth(year, getMonthIndex(month)), ms |-> 86399999]

\* the owner's expenses of the budget's category dated in the budget's month
Matching(b) ==
  { e \in expenses : /\ e.userId = b.userId
                     /\ e.category = b.category
                     /\ DateLE(MonthStart(b.month, b.year), e.date)
                     /\ DateLE(e.date, MonthEnd(b.month, b.year)) }

LedgerSum(b) == SumAmounts(Matching(b))

\* the budgets stored under a key
BudgetsAt(bs, userId, category, bucket) ==
  { b \in bs : SameKey(b, userId, category, bucket[1], bucket[2]) }

\* the budgets bs with delta added to the spentAmount of those under the key
\* and nothing else changed
Adjusted(bs, userId, category, bucket, delta) ==
  { [b EXCEPT !.spentAmount =
        IF SameKey(b, userId, category, bucket[1], bucket[2])
        THEN @ + delta ELSE @] : b \in bs }

\* a refresh by any owner would change nothing
RefreshChangesNothing ==
  \A u \in Users : RefreshBudgets(budgets, expenses, u) = budgets

----------------------------------------------------------------------------
(* Properties *)

\* C1: from a state in which a refresh would change nothing, an expense
\* create, update or delete leads to a state in which a refresh still
\* changes no spentAmount.
C1_IncrementalEqualsBulk ==
  [][(RefreshChangesNothing /\ lastOp'.op \in ExpenseOps)
        => RefreshChangesNothing']_vars

\* C2: after a refresh by an owner every budget of that owner holds the sum
\* of the owner's expenses of its category dated within its month.
C2_RefreshExact ==
  lastOp.op = "budgetRefresh" =>
    \A b \in budgets : b.userId = lastOp.user => b.spentAmount = LedgerSum(b)

\* C3: a second refresh right after a refresh leaves every spentAmount as
\* the first one left it.
C3_RefreshIdempotent ==
  lastOp.op = "budgetRefresh" =>
    RefreshBudgets(budgets, expenses, lastOp.user) = budgets

C3_Witness ==
  /\ lastOp.op = "budgetRefresh"
  /\ \E b \in budgets : b.userId = lastOp.user /\ b.spentAmount > 0
  /\ \E b \in budgets : b.userId = lastOp.user /\ b.spentAmount = 0

\* C4: an update that keeps the category and moves the date to another
\* (month, year) bucket takes the old amount from the budget of the old
\* bucket and adds the new amount to the budget of the new bucket.
C4_DateMove ==
  [][( /\ lastOp'.op = "expenseUpdate" /\ lastOp'.status = 200
       /\ lastOp'.old.category = lastOp'.category
       /\ BucketOf(lastOp'.old.date) # BucketOf(lastOp'.date) )
     => budgets' =
          Adjusted(Adjusted(budgets, lastOp'.user, lastOp'.category,
                            BucketOf(lastOp'.old.date),
                            0 - lastOp'.old.amount),
                   lastOp'.user, lastOp'.category, BucketOf(lastOp'.date),
                   lastOp'.amount)]_vars

\* C5: an update that changes only the category takes the amount from the
\* budget of the old category and adds it to the budget of the new category
\* of the same month and year; with both budgets present the sum of their
\* spentAmounts is unchanged.
C5_CategoryMove ==
  [][( /\ lastOp'.op = "expenseUpdate" /\ lastOp'.status = 200
       /\ lastOp'.old.category # lastOp'.category
       /\ lastOp'.old.amount = lastOp'.amount
       /\ lastOp'.old.date = lastOp'.date )
     => LET u == lastOp'.user
            bucket == BucketOf(lastOp'.date)
            from == BudgetsAt(budgets, u, lastOp'.old.category, bucket)
            to == BudgetsAt(budgets, u, lastOp'.category, bucket)
        IN /\ \A b \in from :
                [b EXCEPT !.spentAmount = @ - lastOp'.amount] \in budgets'
           /\ \A b \in to :
                [b EXCEPT !.spentAmount = @ + lastOp'.amount] \in budgets'
           /\ \A b \in from, c \in to :
                \E b2 \in budgets', c2 \in budgets' :
                   /\ b2.id = b.id /\ c2.id = c.id
                   /\ b2.spentAmount + c2.spentAmount
                         = b.spentAmount + c.spentAmount]_vars

C5_Witness ==
  /\ lastOp.op = "expenseUpdate" /\ lastOp.status = 200
  /\ lastOp.old.category # lastOp.category
  /\ lastOp.old.amount = lastOp.amount
  /\ lastOp.old.date = lastOp.date
  /\ BudgetsAt(budgets, lastOp.user, lastOp.old.category,
               BucketOf(lastOp.date)) # {}
  /\ BudgetsAt(budgets, lastOp.user, lastOp.category,
               BucketOf(lastOp.date)) # {}

\* C6: an update that changes neither the category nor the (month, year)
\* bucket adds the new amount minus the old amount to the matching budget
\* and changes no other budget.
C6_SameBucketUpdate ==
  [][( /\ lastOp'.op = "expenseUpdate" /\ lastOp'.status = 200
       /\ lastOp'.old.category = lastOp'.category
       /\ BucketOf(lastOp'.old.date) = BucketOf(lastOp'.date) )
     => budgets' = Adjusted(budgets, lastOp'.user, lastOp'.category,
                            BucketOf(lastOp'.date),
                            lastOp'.amount - lastOp'.old.amount)]_vars

C6_Witness ==
  /\ lastOp.op = "expenseUpdate" /\ lastOp.status = 200
  /\ lastOp.old.category = lastOp.category
  /\ BucketOf(lastOp.old.date) = BucketOf(lastOp.date)
  /\ lastOp.amount < lastOp.old.amount
  /\ BudgetsAt(budgets, lastOp.user, lastOp.category,
               BucketOf(lastOp.date)) # {}

\* C7: an expense create stores the expense; a budget of the owner, the
\* category and the month and year of the date gains exactly the amount,
\* and without such a budget the budgets are left as they were.
C7_ExpenseCreate ==
  [][lastOp'.op = "expenseCreate"
     => /\ \E e \in expenses' \ expenses :
             /\ e.id = lastOp'.id /\ e.userId = lastOp'.user
             /\ e.amount = lastOp'.amount /\ e.category = lastOp'.category
             /\ e.date = lastOp'.date
        /\ IF BudgetsAt(budgets, lastOp'.user, lastOp'.category,
                        BucketOf(lastOp'.date)) = {}
           THEN budgets' = budgets
           ELSE budgets' = Adjusted(budgets, lastOp'.user, lastOp'.category,
                                    BucketOf(lastOp'.date),
                                    lastOp'.amount)]_vars

\* an expense was created in a bucket without a budget while the owner has
\* a budget of the same category for another month
C7_Witness ==
  /\ lastOp.op = "expenseCreate"
  /\ BudgetsAt(budgets, lastOp.user, lastOp.category,
               BucketOf(lastOp.date)) = {}
  /\ \E b \in budgets : b.userId = lastOp.user /\ b.category = lastOp.category
  /\ \E e \in expenses : e.id = lastOp.id

C9_BudgetCreateSeed ==
  (lastOp.op = "budgetCreate" /\ lastOp.status = 201) =>
    \A b \in budgets : b.id = lastOp.id => b.spentAmount = LedgerSum(b)

\* C10: for every expense and every budget of its owner and category, the
\* date range of the scan contains the expense exactly when the month and
\* year the expense handlers derive from the date are those of the budget;
\* this covers the first and the last instant of the month.
C10_MonthBoundary ==
  \A e \in expenses, b \in budgets :
    (e.userId = b.userId /\ e.category = b.category) =>
      ( ( /\ DateLE(NewDate(b.year, getMonthIndex(b.month), 1), e.date)
          /\ DateLE(e.date, NewDate(b.year, getMonthIndex(b.month) + 1, 0)) )
        <=> (MonthLong(e.date) = b.month /\ getFullYear(e.date) = b.year) )

\* C11: no two budgets share (owner, category, month, year); a budget
\* create for a key that exists is answered 400, and a budget create that
\* is answered 400, at the existence check or by the unique index when two
\* creates race, changes no budget and no transaction.
Unique ==
  \A b1 \in budgets, b2 \in budgets :
    SameKey(b1, b2.userId, b2.category, b2.month, b2.year) => b1 = b2

C11_BudgetUnique ==
  /\ []Unique
  /\ [][ /\ \A p \in ProcIds :
              /\ ( /\ procs[p].pc = "idle" /\ procs'[p].op = "budgetCreate"
                   /\ \E b \in budgets :
                        SameKey(b, procs'[p].user, procs'[p].category,
                                procs'[p].month, procs'[p].year) )
                   => procs'[p].status = 400
              /\ ( /\ procs'[p].op = "budgetCreate"
                   /\ procs'[p].status = 400 /\ procs[p].status # 400 )
                   => /\ budgets' = budgets /\ expenses' = expenses
                      /\ incomes' = incomes
         /\ ( /\ lastOp' # lastOp /\ lastOp'.op = "budgetCreate"
              /\ \E b \in budgets :
                   SameKey(b, lastOp'.user, lastOp'.category, lastOp'.month,
                           lastOp'.year) )
              => /\ lastOp'.status = 400
                 /\ budgets' = budgets /\ expenses' = expenses
                 /\ incomes' = incomes ]_vars

\* two creates for one key raced: one inserted, the unique index refused the
\* other
C11_Witness ==
  \E p \in ProcIds, q \in ProcIds :
    /\ procs[p].op = "budgetCreate" /\ procs[p].status = 400
    /\ procs[p].errorCode = 11000
    /\ procs[q].op = "budgetCreate" /\ procs[q].status = 201
    /\ \E b \in budgets :
         /\ b.id = procs[q].id
         /\ SameKey(b, procs[p].user, procs[p].category, procs[p].month,
                    procs[p].year)

\* C12: with requests served one after the other, no budget ever has a
\* negative spentAmount.
C12_SpentNonNegative == \A b \in budgets : b.spentAmount >= 0

\* C13: once the concurrent expense creates, deletes and same-bucket
\* updates have all answered, every budget holds the sum of its matching
\* expenses: no adjustment of one writer is lost to another.
C13_NoLostUpdate ==
  (\A p \in ProcIds : ~InFlight(p)) =>
    \A b \in budgets : b.spentAmount = LedgerSum(b)

\* two writers overlapped and both adjusted the same existing budget
C13_Witness ==
  /\ procs["p1"].pc = "done" /\ procs["p2"].pc = "done"
  /\ ~procs["p1"].alone /\ ~procs["p2"].alone
  /\ procs["p1"].incs = 1 /\ procs["p2"].incs = 1
  /\ procs["p1"].op = "expenseCreate"
  /\ procs["p2"].op \in {"expenseCreate", "expenseDelete", "expenseUpdate"}
  /\ \E b \in budgets, e \in expenses :
       /\ e.id = procs["p1"].id
       /\ SameKey(b, e.userId, e.category, BucketOf(e.date)[1],
                  BucketOf(e.date)[2])
       /\ IF procs["p2"].op = "expenseDelete"
          THEN /\ procs["p2"].old.category = b.category
               /\ BucketOf(procs["p2"].old.date) = <<b.month, b.year>>
          ELSE /\ procs["p2"].category = b.category
               /\ BucketOf(procs["p2"].date) = <<b.month, b.year>>

\* the date lies within the range the scan uses for the month of the date
InScanRange(date) == DateLE(date, NewDate(date.year, date.month + 1, 0))

\* C14: when a refresh and an expense create, update or delete of the same
\* owner overlapped and both have answered, every budget of the owner holds
\* the sum of its matching expenses (stated for ledgers and requests whose
\* dates the scan covers).
C14_RefreshAnyTime ==
  \A p \in ProcIds, q \in ProcIds :
    ( /\ procs[p].op = "budgetRefresh" /\ procs[p].pc = "done"
      /\ procs[q].op \in ExpenseOps /\ procs[q].pc = "done"
      /\ procs[q].status \in {200, 201}
      /\ procs[q].user = procs[p].user
      /\ ~procs[p].alone /\ ~procs[q].alone
      /\ InScanRange(procs[q].date) /\ InScanRange(procs[q].old.date)
      /\ \A e \in expenses : InScanRange(e.date) )
    => \A b \in budgets :
         b.userId = procs[p].user => b.spentAmount = LedgerSum(b)

\* C15: when a refresh that ran alone has stopped in its loop, every budget
\* it has saved holds the sum of its matching expenses and every budget it
\* has not saved holds the document the refresh loaded; a refresh run
\* afterwards to completion leaves every budget of the owner equal to the sum
\* of its matching expenses.
C15_InterruptedRefresh ==
  \A p \in ProcIds : \A q \in ProcIds \ {p} :
    ( /\ procs[p].op = "budgetRefresh" /\ procs[p].pc = "crashed"
      /\ procs[p].alone )
    => /\ procs[q].pc = "idle" =>
            \A b \in budgets :
              b.userId = procs[p].user =>
                IF \E t \in procs[p].todo : t.id = b.id
                THEN b \in procs[p].todo
                ELSE b.spentAmount = LedgerSum(b)
       /\ ( /\ procs[q].op = "budgetRefresh" /\ procs[q].pc = "done"
            /\ procs[q].status = 200 /\ procs[q].alone )
          => \A b \in budgets :
               b.userId = procs[q].user => b.spentAmount = LedgerSum(b)

\* C17: a request answered 404 at its lookup changes no expense, income or
\* budget; and an expense update whose target was gone when its write ran
\* (deleted by another request after the lookup) adjusts no budget and, when
\* it answers, answers 404.
C17_NotFoundNoMutation ==
  [][\A p \in ProcIds :
       /\ (procs[p].pc = "idle" /\ procs'[p].status = 404)
          => UNCHANGED <<expenses, incomes, budgets>>
       /\ ( /\ procs[p].op = "expenseUpdate"
            /\ procs[p].pc \in {"inc", "inc2"}
            /\ ~procs[p].wrote
            /\ procs'[p] # procs[p]
            /\ procs'[p].status # 500 )
          => /\ budgets' = budgets
             /\ procs'[p].pc = "done" => procs'[p].status = 404]_vars

\* C18: an expense create, update or delete whose ledger write was made
\* and which has answered did not answer with a failure, even when its
\* budget adjustment failed.
C18_LedgerWriteNotBlocked ==
  \A p \in ProcIds :
    ( /\ procs[p].op \in ExpenseOps /\ procs[p].pc = "done"
      /\ procs[p].wrote )
    => procs[p].status \in {200, 201}

\* the number of budget adjustments an expense request issues
RequiredIncs(r) ==
  IF r.op = "expenseUpdate" /\ r.old.category # r.category THEN 2 ELSE 1

\* C19: an expense create, update or delete that has sent a success
\* response has finished, and all the budget adjustments it issues were
\* applied before the response.
C19_SynchronousReconciliation ==
  \A p \in ProcIds :
    (procs[p].op \in ExpenseOps /\ procs[p].status \in {200, 201})
    => /\ procs[p].pc = "done"
       /\ procs[p].incs = RequiredIncs(procs[p])

\* a changed-category update has answered 200 after both adjustments, the
\* second of which changed a budget
C19_Witness ==
  \E p \in ProcIds :
    /\ procs[p].op = "expenseUpdate" /\ procs[p].pc = "done"
    /\ procs[p].status = 200 /\ procs[p].wrote
    /\ procs[p].old.category # procs[p].category
    /\ procs[p].incs = 2
    /\ \E b \in budgets :
         /\ b.category = procs[p].category
         /\ <<b.month, b.year>> = BucketOf(procs[p].date)
         /\ b.spentAmount > 0

\* the request bodies that fail validation: a transaction with amount <= 0,
\* empty category, empty or over-200-character description or malformed
\* date; a budget with budgetAmount <= 0, empty category, month not one of
\* the 12 names, or year outside 2020..2030
FailsValidation(route, body) ==
  IF route \in {"budgetCreate", "budgetUpdate"}
  THEN \/ ~parseFloat(body.budgetAmount).nan
          /\ parseFloat(body.budgetAmount).value <= 0
       \/ body.category = ""
       \/ body.month \notin { months[i] : i \in 1..12 }
       \/ parseInt(body.year).nan
       \/ parseInt(body.year).value \notin 2020..2030
  ELSE \/ ~parseFloat(body.amount).nan /\ parseFloat(body.amount).value <= 0
       \/ body.category = ""
       \/ body.description = 0
       \/ body.description > 200
       \/ body.date \notin DOMAIN IsoDates

\* C16: a request whose body fails validation is answered 400 with the
\* validation errors and never reaches its handler, and the step that
\* rejects it changes no expense, no income and no budget.
C16_ValidationRejects ==
  /\ [](FailsValidation(request.route, request.body) /\ request.route # "none"
        => /\ ~request.pending
           /\ request.errors # {}
           /\ lastOp.status = 400)
  /\ [][request'.errors # {}
        => UNCHANGED <<expenses, incomes, budgets>>]_vars

\* a request failing validation was rejected while the ledger, the incomes
\* and the budgets were not empty
C16_Witness ==
  /\ request.route # "none"
  /\ FailsValidation(request.route, request.body)
  /\ request.errors # {}
  /\ lastOp.status = 400
  /\ expenses # {} /\ incomes # {} /\ budgets # {}

\* the buckets an expense request touches: the one of the document it read
\* and the one of the document it wrote have no budget
NoBudgetInBuckets(op) ==
  /\ op.old # NoDoc =>
       BudgetsAt(budgets, op.user, op.old.category, BucketOf(op.old.date)) = {}
  /\ op.date # NoDate =>
       BudgetsAt(budgets, op.user, op.category, BucketOf(op.date)) = {}

\* C20: a successful budget delete removes the budget with the given id and
\* nothing else: the other budgets, the expenses and the incomes are as
\* before; and an expense create, update or delete whose buckets have no
\* budget leaves the budget collection as it is.
C20_BudgetDeleteNoCascade ==
  [][/\ ( /\ served' # served
          /\ lastOp'.op = "budgetDelete" /\ lastOp'.status = 200 )
        => /\ \E b \in budgets : b.id = lastOp'.id
           /\ budgets' = { b \in budgets : b.id # lastOp'.id }
           /\ UNCHANGED <<expenses, incomes>>
     /\ ( /\ served' # served
          /\ lastOp'.op \in ExpenseOps /\ lastOp'.status \in {200, 201}
          /\ NoBudgetInBuckets(lastOp') )
        => budgets' = budgets]_vars

\* a budget was deleted while another budget and ledger documents existed,
\* which are all still there
C20_Witness ==
  /\ lastOp.op = "budgetDelete" /\ lastOp.status = 200
  /\ budgets # {}
  /\ \A b \in budgets : b.id # lastOp.id
  /\ expenses # {} \/ incomes # {}

\* the documents of a collection that do not belong to the owner
NotOf(docs, owner) == { d \in docs : d.userId # owner }

\* the sum of the owner's own expenses of a category inside the range the
\* scan of a month covers
OwnScan(owner, category, month, year) ==
  SumAmounts({ e \in expenses :
                 /\ e.userId = owner
                 /\ e.category = category
                 /\ DateLE(MonthStart(month, year), e.date)
                 /\ DateLE(e.date, NewDate(year, getMonthIndex(month) + 1, 0)) })

\* C21: a request made as one owner leaves every expense, income and budget
\* of the other owners as it was, and a spentAmount it seeds or recomputes
\* counts only the requesting owner's expenses, whatever the other owners
\* have in the same category, month and year.
C21_OwnerScoping ==
  [][served' # served
     => /\ NotOf(expenses', lastOp'.user) = NotOf(expenses, lastOp'.user)
        /\ NotOf(incomes', lastOp'.user) = NotOf(incomes, lastOp'.user)
        /\ NotOf(budgets', lastOp'.user) = NotOf(budgets, lastOp'.user)
        /\ ( /\ lastOp'.op \in {"budgetCreate", "budgetUpdate",
                                "budgetRefresh"}
             /\ lastOp'.status \in {200, 201} )
           => \A b \in budgets' :
                (b.userId = lastOp'.user
                 /\ (lastOp'.op = "budgetRefresh" \/ b.id = lastOp'.id))
                => b.spentAmount =
                     OwnScan(b.userId, b.category, b.month, b.year)]_vars

\* an owner created a budget, seeded with their own expense only, while the
\* other owner has an expense and a budget in the same category and month
C21_Witness ==
  /\ lastOp.op = "budgetCreate" /\ lastOp.status = 201
  /\ \E b \in budgets, o \in budgets, e \in expenses, f \in expenses :
       /\ b.id = lastOp.id /\ b.userId = lastOp.user
       /\ o.userId # b.userId /\ o.category = b.category
       /\ o.month = b.month /\ o.year = b.year
       /\ e.userId = b.userId /\ f.userId # b.userId
       /\ e.category = b.category /\ f.category = b.category
       /\ b.spentAmount = e.amount

\* the requests of two slots have both answered after overlapping in time,
\* and every date they read or wrote lies inside the range of the scan
BothDoneOverlapped(p, q) ==
  /\ procs[p].pc = "done" /\ procs[q].pc = "done"
  /\ ~procs[p].alone /\ ~procs[q].alone
  /\ procs[p].user = procs[q].user
  /\ InScanRange(procs[p].date) /\ InScanRange(procs[p].old.date)
  /\ InScanRange(procs[q].date) /\ InScanRange(procs[q].old.date)
  /\ \A e \in expenses : InScanRange(e.date)

\* C25: when an update of an expense overlapped with another update or a
\* delete of the same expense and both have answered with success, every
\* budget holds the sum of its matching expenses.
C25_SameExpenseRace ==
  \A p \in ProcIds : \A q \in ProcIds \ {p} :
    ( /\ procs[p].op = "expenseUpdate"
      /\ procs[q].op \in {"expenseUpdate", "expenseDelete"}
      /\ procs[p].id = procs[q].id
      /\ procs[p].status = 200 /\ procs[q].status = 200
      /\ BothDoneOverlapped(p, q) )
    => \A b \in budgets : b.spentAmount = LedgerSum(b)

\* C26: when a budget create overlapped with an expense create or delete in
\* the bucket of the new budget and both have answered with success, the
\* new budget holds the sum of its matching expenses.
C26_BudgetCreateRace ==
  \A p \in ProcIds : \A q \in ProcIds \ {p} :
    ( /\ procs[p].op = "budgetCreate" /\ procs[p].status = 201
      /\ procs[q].op \in {"expenseCreate", "expenseDelete"}
      /\ procs[q].status \in {200, 201}
      /\ BothDoneOverlapped(p, q) )
    => \A b \in budgets : b.id = procs[p].id => b.spentAmount = LedgerSum(b)

\* C27: after a successful budget update the budget holds the sum of the
\* owner's expenses matching its new category, month and year; and an update
\* onto the key of another budget of the owner is answered 400 and leaves
\* the budget collection unchanged.
C27_BudgetUpdateReseeds ==
  [][(served' # served /\ lastOp'.op = "budgetUpdate")
     => /\ lastOp'.status = 200 =>
             \E b \in budgets' :
               /\ b.id = lastOp'.id
               /\ b.category = lastOp'.category
               /\ b.month = lastOp'.month /\ b.year = lastOp'.year
               /\ b.spentAmount =
                    SumAmounts({ e \in expenses' :
                       /\ e.userId = b.userId /\ e.category = b.category
                       /\ DateLE(MonthStart(b.month, b.year), e.date)
                       /\ DateLE(e.date, MonthEnd(b.month, b.year)) })
        /\ (\E o \in budgets :
              /\ o.id # lastOp'.id
              /\ \E t \in budgets : t.id = lastOp'.id /\ t.userId = o.userId
              /\ SameKey(o, lastOp'.user, lastOp'.category, lastOp'.month,
                         lastOp'.year))
           => lastOp'.status = 400 /\ budgets' = budgets]_vars

\* the budgets a step changed or removed
Touched == { b \in budgets : b \notin budgets' }

\* the budget lies in the bucket of an expense document
InBucketOf(b, doc) ==
  /\ doc # NoDoc
  /\ b.userId = doc.userId /\ b.category = doc.category
  /\ <<b.month, b.year>> = BucketOf(doc.date)

\* C30: an expense create, update or delete keeps the set of budgets and
\* every field of them but spentAmount; it changes the spentAmount of at
\* most one budget (two for an update), each in the bucket of the document
\* written or of the document read; an income create, update or delete
\* changes no budget.
C30_LedgerFrame ==
  [][served' # served
     => /\ lastOp'.op \in ExpenseOps
           => /\ { b.id : b \in budgets' } = { b.id : b \in budgets }
              /\ \A b \in budgets : \E c \in budgets' :
                   c = [b EXCEPT !.spentAmount = c.spentAmount]
              /\ Cardinality(Touched)
                   <= (IF lastOp'.op = "expenseUpdate" THEN 2 ELSE 1)
              /\ \A b \in Touched :
                   \/ InBucketOf(b, lastOp'.old)
                   \/ InBucketOf(b, [id |-> lastOp'.id,
                                     userId |-> lastOp'.user,
                                     amount |-> lastOp'.amount,
                                     category |-> lastOp'.category,
                                     date |-> lastOp'.date])
        /\ lastOp'.op \in {"incomeCreate", "incomeUpdate", "incomeDelete"}
           => budgets' = budgets]_vars

\* an expense moved from one category to another while both buckets had a
\* budget
C30_Witness ==
  /\ lastOp.op = "expenseUpdate" /\ lastOp.status = 200
  /\ lastOp.old.category # lastOp.category
  /\ \E b \in budgets : InBucketOf(b, lastOp.old)
  /\ \E b \in budgets :
       /\ b.category = lastOp.category
       /\ <<b.month, b.year>> = BucketOf(lastOp.date)

\* the calendar month that lies back months before the month of the clock
MonthBack(clock, back) == MakeDate(clock.year, clock.month - back, 1, 0)

\* the transactions of an owner dated in the calendar month of a date
InMonthOf(docs, userId, first) ==
  { d \in docs : /\ d.userId = userId
                 /\ d.date.year = first.year
                 /\ d.date.month = first.month }

\* the N of a monthly series: 6 on the dashboard and in the reports, the
\* months parameter of the trend (absent: 6)
SeriesLength ==
  IF response.route = "trend" THEN TrendMonths(response.query.months) ELSE 6

HasSeries ==
  /\ response.route \in {"dashboard", "reports", "trend"}
  /\ response.status = 200
  /\ SeriesLength >= 1

\* C22: the monthly series of the dashboard, the reports and the trend has
\* exactly N tuples, the k-th of them for the calendar month N - k months
\* before the current month (chronological order, ending at the current
\* month), and a month without transactions of the owner has income 0 and
\* expenses 0
C22_MonthlySeriesDense ==
  HasSeries =>
    /\ Len(response.monthlyData) = SeriesLength
    /\ \A k \in 1..SeriesLength :
         LET first == MonthBack(now, SeriesLength - k)
             tuple == response.monthlyData[k]
         IN /\ tuple.month.name = monthsShort[first.month + 1]
            /\ tuple.month.year \in {0, first.year}
            /\ InMonthOf(incomes, response.user, first) = {}
                 => tuple.income = 0
            /\ InMonthOf(expenses, response.user, first) = {}
                 => tuple.expenses = 0

\* the category names with a transaction of the owner in the range that the
\* handler matched on
CategoriesInRange(docs) ==
  { d.category : d \in InRange(docs, response.user, response.start,
                               response.end) }

\* the ledger a category breakdown is computed from
BreakdownLedger ==
  IF response.route = "categories" /\ response.query.type = "income"
  THEN incomes ELSE expenses

HasBreakdown ==
  /\ response.route \in {"dashboard", "reports", "categories"}
  /\ response.status = 200

\* C23: the category breakdown of the dashboard, of the reports and of the
\* category performance has one entry per category with a transaction of
\* the owner in the range, each with the sum and the count of that
\* category, in descending order of the sums, and at most 10 entries: the
\* 10 categories with the largest sums
C23_CategoryBreakdown ==
  HasBreakdown =>
    LET data == response.categoryData
        inRange == InRange(BreakdownLedger, response.user, response.start,
                           response.end)
        names == { data[k].name : k \in 1..Len(data) }
    IN /\ Len(data) <= 10
       /\ Cardinality(names) = Len(data)
       /\ names \subseteq CategoriesInRange(BreakdownLedger)
       /\ Len(data) < 10 => names = CategoriesInRange(BreakdownLedger)
       /\ \A k \in 1..Len(data) :
            /\ data[k].amount =
                 SumAmounts({ d \in inRange : d.category = data[k].name })
            /\ data[k].count =
                 Cardinality({ d \in inRange : d.category = data[k].name })
       /\ \A k \in 1..(Len(data) - 1) : data[k].amount >= data[k + 1].amount
       /\ \A c \in CategoriesInRange(BreakdownLedger) \ names :
            \A k \in 1..Len(data) :
              SumAmounts({ d \in inRange : d.category = c })
                <= data[k].amount

\* the request carries a start date and an end date, the start after the end
StartAfterEnd ==
  /\ response.query.startDate # ""
  /\ response.query.endDate # ""
  /\ ~DateLE(QueryDates[response.query.startDate],
             QueryDates[response.query.endDate])

\* C24: an aggregation request (reports, category performance, expense
\* statistics, system reports) whose range has start > end is answered with
\* a caller error (status 400), not with a result
C24_RangeRejected ==
  /\ response.route \in {"reports", "categories", "stats", "system"}
  /\ StartAfterEnd
  => response.status = 400

\* the transactions of an owner dated from the first instant of the oldest
\* month of the series to the last instant of the current month
InWindow(docs, userId) ==
  InRange(docs, userId, MonthBack(now, SeriesLength - 1),
          MakeDate(now.year, now.month + 1, 0, 86399999))

RECURSIVE SumSeries(_, _)
SumSeries(series, field) ==
  IF series = <<>> THEN 0
  ELSE series[1][field] + SumSeries(Tail(series), field)

\* C28: the tuples of a monthly series partition its window: their expenses
\* (incomes) add up to the owner's expenses (incomes) dated from the first
\* instant of the oldest month to the last instant of the current month,
\* and on the dashboard with period 'month' the tuple of the current month
\* carries the totals of the period.  Stated for the requests other than
\* period 'week', whose series does not end at the current month.
C28_MonthlyPartition ==
  HasSeries /\ response.query.period # "week" =>
    /\ SumSeries(response.monthlyData, "expenses") =
         SumAmounts(InWindow(expenses, response.user))
    /\ SumSeries(response.monthlyData, "income") =
         SumAmounts(InWindow(incomes, response.user))
    /\ response.route = "dashboard" /\ response.query.period = "month" =>
         /\ response.monthlyData[6].expenses = response.totalExpenses
         /\ response.monthlyData[6].income = response.totalIncome

\* the order of two zero-padded ISO days is the order of their characters
\* and the order of the days they denote
IsoBefore(a, b) == LexLess(a, b)

\* the calendar days of the range on which the owner has a transaction
DaysInRange ==
  { IsoDay(d.date) :
      d \in InRange(expenses \cup incomes, response.user, response.start,
                    response.end) }

OnDay(docs, day) ==
  { d \in InRange(docs, response.user, response.start, response.end) :
      IsoDay(d.date) = day }

HasDailyTrend == response.route = "reports" /\ response.status = 200

\* C29: the daily trend of the reports has exactly one tuple per calendar
\* day of the range with an income or an expense of the owner, each with
\* the income and the expenses of that day and balance = income - expenses,
\* and the tuples are in ascending order of their dates
C29_DailyTrend ==
  HasDailyTrend =>
    LET trend == response.dailyTrend
    IN /\ { trend[k].date : k \in 1..Len(trend) } = DaysInRange
       /\ Len(trend) = Cardinality(DaysInRange)
       /\ \A k \in 1..Len(trend) :
            /\ trend[k].income = SumAmounts(OnDay(incomes, trend[k].date))
            /\ trend[k].expenses = SumAmounts(OnDay(expenses, trend[k].date))
            /\ trend[k].balance = trend[k].income - trend[k].expenses
       /\ \A k \in 1..(Len(trend) - 1) :
            IsoBefore(trend[k].date, trend[k + 1].date)

====
